---- MODULE Spec2Model ----
(***************************************************************************)
(* A model of the core tangle engine of the proxima node:                  *)
(*   - the wrapped transaction (core/vertex/vid.go): status, reference     *)
(*     count and shape of a WrappedTx, with the goroutines that call it;   *)
(*   - the poker (core/poker/poker.go): the command queue, the waiting     *)
(*     map and its TTL sweep;                                              *)
(*   - the sequencer tips pool (core/work_process/tippool/tippool.go);     *)
(*   - the milestone preference order (vid.go, IsPreferredBase);           *)
(*   - the sequencer loop, the input consumer, the sync manager, the       *)
(*     solidification, the root records and the branch store, the peers,   *)
(*     the work processes, the consumers and the past cone of a WrappedTx; *)
(*   - TransactionInWaitAppend, the input backlog of the sequencer, the    *)
(*     read-write lock of the tangle, the start and stop of the poker.     *)
(* Each part has its own specification over the shared variables; the      *)
(* variables of the other parts stay at their initial values.              *)
(***************************************************************************)
EXTENDS Integers, Sequences, FiniteSets, TLC

\* ------------------------------------------------------------------------
\* Bounds of the model
\* ------------------------------------------------------------------------

\* Reference is not called any more once the count has reached MaxRefs
MaxRefs == 3

\* ------------------------------------------------------------------------
\* The universe: transactions and goroutines
\* ------------------------------------------------------------------------

\* the wrapped transactions the goroutines share
VIDs == {"v1", "v2"}

\* the goroutines calling into a WrappedTx
Procs == {"g1", "g2"}

NoProc == "none"

\* error values handed to SetTxStatusBad; "nil" is the nil error
Reasons == {"nil", "conflict"}

\* math.MaxUint16: the reference counter is a 16 bit unsigned integer
MaxUint16 == 65535

VARIABLES
    shape,       \* vid._genericWrapper: "none" (not created), "virtualTx", "vertex", "deleted"
    flags,       \* vid.flags: the set of flags that are up
    err,         \* vid.err: "nil" or the reason of Bad
    references,  \* vid.references
    mutex,       \* vid.mutex: the goroutine holding the write lock, or NoProc
    pc,          \* per goroutine: the call in progress
    expected,    \* per vertex: creations + successful Reference - UnReference calls
    last,        \* the call that returned last: [op, vid, res]
    \* --- the poker
    queue,       \* Poker.Queue: the commands pushed and not yet consumed
    m,           \* Poker.m: wanted -> waitingList [waiting, keepUntil]
    now,         \* time.Now(), in seconds
    poked,       \* the PokeWith calls made by the command consumed last
    pending,     \* per wanted: the waiters of the Waits processed since its last PokeAll
    live,        \* per wanted: those of pending with no sweep later than a minute after the last Wait
    lastWaitAt,  \* per wanted: when its last Wait was processed
    survived,    \* per wanted: its list was kept by a sweep since the list exists
    \* --- the sequencer tips pool
    latestMilestones, \* SequencerTips.latestMilestones: chain id -> milestoneData
    msData,      \* per vertex: its ID, sequencer id and ledger coverage
    holders,     \* per vertex: the references held outside the tips pool
    consumed,    \* the Consume call made last: [vid, prev, stored]
    \* --- the milestone preference
    prefIn,      \* the milestones handed to IsPreferredBase: [cov, txid]
    prefOut,     \* prefOut[i][j]: the result for (prefIn[i], prefIn[j])
    \* --- the sequencer
    config,      \* seq.config: [Pace, MaxBranches, MaxTargetTs]
    seqNow,      \* ledger.TimeNow()
    seqPc,       \* mainLoop: "loop", "waitTip", "stopped", "panic"
    ownLatestMilestone, \* the timestamp of factory.OwnLatestMilestoneOutput()
    milestoneCount,     \* seq.milestoneCount
    branchCount,        \* seq.branchCount
    prevTimeTarget,     \* seq.prevTimeTarget
    seqMs,       \* the timestamp of the milestone submitted by the step in progress
    seqDeadline, \* submitMilestone: deadline
    tipOwn,      \* the timestamp of GetLatestMilestone(seq.sequencerID)
    seqStep,     \* the step made last: [kind, target, prev, nowis]
    \* --- the primary input consumer
    primaryQueue, \* the queue of the primary input consumer: the transactions pushed by TransactionIn
    seenSet,     \* PrimaryConsumer.seen
    vertices,    \* UTXOTangle.vertices: the ids of the transactions on the tangle
    preValidateQueue, \* the transactions passed downstream and not yet on the tangle
    submitted,   \* per transaction: the calls of TransactionIn
    outCount,    \* per transaction: the times it was passed downstream
    duplicateEvents, \* per transaction: the EventCodeDuplicateTx events posted
    newVertexEvents,\* per transaction: the EventNewVertex events posted
    \* --- the sync manager
    syncConfig,  \* SyncManager.syncPortionSlots and syncToleranceThresholdSlots
    wall,        \* the wall clock in ticks: time.Now(), ledger.TimeNow()
    dbLatestSlot, \* the latest slot in the state DB: multistate.FetchLatestSlot
    latestSlotInDB, \* SyncManager.latestSlotInDB, the cache
    syncPortionRequestedAtLeastUntilSlot, \* SyncManager.syncPortionRequestedAtLeastUntilSlot
    syncPortionDeadline, \* SyncManager.syncPortionDeadline
    syncStep,    \* the last call of checkSync and the call of PullSyncPortion it made
    portionPulled,\* PullSyncPortion was called since the start
    ignoreFuture, \* the last call of IgnoreFutureTxID: [txSlot, ret, fresh], fresh when it follows checkSync at once
    \* --- the attachers of dependent transactions
    attacher,    \* per transaction: "none" (not submitted), "run", "register", "suspended", "good"
    pokeChan,    \* per transaction: a wake signal of the poker is waiting for the attacher
    \* --- the root records and the inclusion score
    thresholdNumerator, \* the numerator of the inclusion threshold
    thresholdDenominator, \* the denominator of the inclusion threshold
    rootRecord,  \* the RootRecord IsCoverageAboveThreshold is called on: [LedgerCoverage, Supply]
    aboveThreshold, \* the result of IsCoverageAboveThreshold, "none" before the call
    inclusion,   \* TxInclusion.Inclusion: per tip [Included, RootRecord]
    score,       \* the TxInclusionScore returned by CalcTxInclusionScore, NoScore before the call
    \* --- the encoding of a root record
    recIn,       \* the RootRecord handed to Bytes
    recData,     \* the bytes handed to RootRecordFromBytes, NoData before they exist
    recOut,      \* the result of RootRecordFromBytes: [err, rec], NoDecode before the call
    \* --- the root records in the state store
    rootRecs,    \* the root record partition: branch transaction id -> [LedgerCoverage, Predecessor]
    latestBin,   \* the latest slot partition: the bytes of the slot, <<>> when never written
    lastRoot,    \* the branch of the root record written last, NoBranch before the first
    chain,       \* the branch ids returned by FetchHeaviestBranchChainNSlotsBack: [nBack, ids], NoChain before the call
    \* --- the shape of a wrapped transaction as its callers see it
    isBranch,    \* vid -> the transaction id is flagged as a branch transaction
    baselineBranch,\* vid -> Vertex.BaselineBranch, NilVID while none is chosen
    \* --- the peers and the gossip stream handlers
    peers,       \* peer id -> [isStatic], the peers known
    blacklist,   \* peer id -> the deadline of its blacklist entry
    peerNow,     \* time.Now() as seen by the peering
    gossip,      \* stream handler -> [pc, id, blacklisted]: its position, the remote peer, whether the peer was blacklisted when the stream came
    \* --- the work processes of the node and the wait for their stop
    components,  \* the names of the work processes started and not stopped
    globalNow,   \* time.Now() as seen by the wait, in sleeps of 5 milliseconds
    wait,        \* MustWaitAllWorkProcessesStop: [pc, deadline, wakeAt, result]
    \* --- the consumers of the outputs of one wrapped transaction
    consumedOutputs, \* output index -> the set of consumers, no entry while the output has none
    attached,    \* the last call of AttachConsumer: [idx, consumer, check, ret, before]
    \* --- the depth-first traverse of a past cone
    pastCone,    \* vertex -> [shape, Inputs, Endorsements]: the wrapped transactions and their dependencies
    traverseOpt, \* the call: [stop, visited], the vertices whose callback returns false and the visited set handed in
    traversed,   \* the outcome: [visited, events, ret, done], the events are the vertices entered and called back, in order
    \* --- core/syncmgr/sync.go: Workflow.TransactionInWaitAppend
    appendPc,    \* the position of the caller of TransactionInWaitAppend
    appendResult, \* what the call returns: "none" until it has one
    pushed,      \* the transaction with its callbacks is in the input queue
    closeMutex,  \* the holder of closeMutex, NoProc when free
    closed,      \* the flag closed
    errCh,       \* the channel errCh: "open", "closed"
    callbackPc,  \* goroutine of a finish event -> its position in the callback
    \* --- sequencer backlog: InputBacklog
    txKind,      \* transaction -> what the candidate is: see TxKinds
    outputs,     \* the map outputs: wrapped output -> the time it was stored
    backlogNow,  \* time.Now() of the backlog
    listener,    \* goroutine of the account listener -> its position and its output
    backlogStep, \* the last step of the backlog: what it did and why
    \* --- dag/utangle/utangle.go: the mutex of the tangle
    tangleMutex, \* ut.mutex: the number of read locks held and the writer that has called Lock
    readerPc,    \* reading goroutine -> its position
    writerPc,    \* writing goroutine -> its position
    \* --- core/poker/poker.go: Start, periodicLoop, WaitStop
    stopWG,      \* the counter of stopWG
    ctxDone,     \* the context of Start is cancelled
    runPc,       \* the goroutine of Start that calls Run: its position
    loopPc,      \* the goroutine of periodicLoop: its position
    loops,       \* the periodic cleanups pushed by periodicLoop
    queueStopped, \* Stop was called on the queue
    waitStop     \* caller of WaitStop -> "idle", or what it found when WaitStop returned

vtxVars == <<shape, flags, err, references, mutex, pc, expected, last>>

pokerVars == <<queue, m, now, poked, pending, live, lastWaitAt, survived>>

tipsVars == <<latestMilestones, msData, holders, consumed>>

prefVars == <<prefIn, prefOut>>

seqVars == <<config, seqNow, seqPc, ownLatestMilestone, milestoneCount, branchCount,
             prevTimeTarget, seqMs, seqDeadline, tipOwn, seqStep>>

dupVars == <<primaryQueue, seenSet, vertices, preValidateQueue, submitted, outCount, duplicateEvents, newVertexEvents>>

syncVars == <<syncConfig, wall, dbLatestSlot, latestSlotInDB, syncPortionRequestedAtLeastUntilSlot, syncPortionDeadline, syncStep, portionPulled, ignoreFuture>>

solidVars == <<attacher, pokeChan>>

scoreVars == <<thresholdNumerator, thresholdDenominator, rootRecord, aboveThreshold, inclusion, score>>

recVars == <<recIn, recData, recOut>>

storeVars == <<rootRecs, latestBin, lastRoot, chain>>

accVars == <<isBranch, baselineBranch>>

peerVars == <<peers, blacklist, peerNow, gossip>>

globalVars == <<components, globalNow, wait>>

consVars == <<consumedOutputs, attached>>

travVars == <<pastCone, traverseOpt, traversed>>

waitAppendVars == <<appendPc, appendResult, pushed, closeMutex, closed, errCh, callbackPc>>

backlogVars == <<txKind, outputs, backlogNow, listener, backlogStep>>

tangleVars == <<tangleMutex, readerPc, writerPc>>

startVars == <<stopWG, ctxDone, runPc, loopPc, loops, queueStopped, waitStop>>

vars == <<vtxVars, pokerVars, tipsVars, prefVars, seqVars, dupVars, syncVars, solidVars, scoreVars, recVars, storeVars, accVars, peerVars, globalVars, consVars, travVars, waitAppendVars, backlogVars, tangleVars, startVars>>

\* what an operation of one part leaves alone
OnlyVertex == UNCHANGED <<pokerVars, tipsVars, prefVars, seqVars, dupVars, syncVars, solidVars, scoreVars, recVars, storeVars, accVars, peerVars, globalVars, consVars, travVars, waitAppendVars, backlogVars, tangleVars, startVars>>

OnlyPoker == UNCHANGED <<vtxVars, tipsVars, prefVars, seqVars, dupVars, syncVars, solidVars, scoreVars, recVars, storeVars, accVars, peerVars, globalVars, consVars, travVars, waitAppendVars, backlogVars, tangleVars, startVars>>

OnlyTips == UNCHANGED <<shape, flags, err, mutex, pc, last, pokerVars, prefVars, seqVars, dupVars, syncVars, solidVars, scoreVars, recVars, storeVars, accVars, peerVars, globalVars, consVars, travVars, waitAppendVars, backlogVars, tangleVars, startVars>>

OnlyPref == UNCHANGED <<vtxVars, pokerVars, tipsVars, seqVars, dupVars, syncVars, solidVars, scoreVars, recVars, storeVars, accVars, peerVars, globalVars, consVars, travVars, waitAppendVars, backlogVars, tangleVars, startVars>>

OnlySeq == UNCHANGED <<vtxVars, pokerVars, tipsVars, prefVars, dupVars, syncVars, solidVars, scoreVars, recVars, storeVars, accVars, peerVars, globalVars, consVars, travVars, waitAppendVars, backlogVars, tangleVars, startVars>>

OnlyDup == UNCHANGED <<vtxVars, pokerVars, tipsVars, prefVars, seqVars, syncVars, solidVars, scoreVars, recVars, storeVars, accVars, peerVars, globalVars, consVars, travVars, waitAppendVars, backlogVars, tangleVars, startVars>>

OnlySync == UNCHANGED <<vtxVars, pokerVars, tipsVars, prefVars, seqVars, dupVars, solidVars, scoreVars, recVars, storeVars, accVars, peerVars, globalVars, consVars, travVars, waitAppendVars, backlogVars, tangleVars, startVars>>

\* an attacher works with the queue and the map of the poker
OnlySolid == UNCHANGED <<vtxVars, now, poked, pending, live, lastWaitAt, survived, tipsVars, prefVars, seqVars, dupVars, syncVars, scoreVars, recVars, storeVars, accVars, peerVars, globalVars, consVars, travVars, waitAppendVars, backlogVars, tangleVars, startVars>>

OnlyScore == UNCHANGED <<vtxVars, pokerVars, tipsVars, prefVars, seqVars, dupVars, syncVars, solidVars, recVars, storeVars, accVars, peerVars, globalVars, consVars, travVars, waitAppendVars, backlogVars, tangleVars, startVars>>

OnlyRec == UNCHANGED <<vtxVars, pokerVars, tipsVars, prefVars, seqVars, dupVars, syncVars, solidVars, scoreVars, storeVars, accVars, peerVars, globalVars, consVars, travVars, waitAppendVars, backlogVars, tangleVars, startVars>>

OnlyStore == UNCHANGED <<vtxVars, pokerVars, tipsVars, prefVars, seqVars, dupVars, syncVars, solidVars, scoreVars, recVars, accVars, peerVars, globalVars, consVars, travVars, waitAppendVars, backlogVars, tangleVars, startVars>>

OnlyAccess == UNCHANGED <<flags, err, references, mutex, pc, expected, pokerVars, tipsVars, prefVars, seqVars, dupVars, syncVars, solidVars, scoreVars, recVars, storeVars, peerVars, globalVars, consVars, travVars, waitAppendVars, backlogVars, tangleVars, startVars>>

OnlyPeers == UNCHANGED <<vtxVars, pokerVars, tipsVars, prefVars, seqVars, dupVars, syncVars, solidVars, scoreVars, recVars, storeVars, accVars, globalVars, consVars, travVars, waitAppendVars, backlogVars, tangleVars, startVars>>

OnlyGlobal == UNCHANGED <<vtxVars, pokerVars, tipsVars, prefVars, seqVars, dupVars, syncVars, solidVars, scoreVars, recVars, storeVars, accVars, peerVars, consVars, travVars, waitAppendVars, backlogVars, tangleVars, startVars>>

OnlyConsumed == UNCHANGED <<vtxVars, pokerVars, tipsVars, prefVars, seqVars, dupVars, syncVars, solidVars, scoreVars, recVars, storeVars, accVars, peerVars, globalVars, travVars, waitAppendVars, backlogVars, tangleVars, startVars>>

OnlyTraverse == UNCHANGED <<vtxVars, pokerVars, tipsVars, prefVars, seqVars, dupVars, syncVars, solidVars, scoreVars, recVars, storeVars, accVars, peerVars, globalVars, consVars, waitAppendVars, backlogVars, tangleVars, startVars>>

OnlyWaitAppend == UNCHANGED <<vtxVars, pokerVars, tipsVars, prefVars, seqVars, dupVars, syncVars, solidVars, scoreVars, recVars, storeVars, accVars, peerVars, globalVars, consVars, travVars, backlogVars, tangleVars, startVars>>

OnlyBacklog == UNCHANGED <<shape, flags, err, mutex, pc, last, pokerVars, tipsVars, prefVars, seqVars, dupVars, syncVars, solidVars, scoreVars, recVars, storeVars, accVars, peerVars, globalVars, consVars, travVars, waitAppendVars, tangleVars, startVars>>

OnlyTangle == UNCHANGED <<vtxVars, pokerVars, tipsVars, prefVars, seqVars, dupVars, syncVars, solidVars, scoreVars, recVars, storeVars, accVars, peerVars, globalVars, consVars, travVars, waitAppendVars, backlogVars, startVars>>

OnlyStart == UNCHANGED <<vtxVars, pokerVars, tipsVars, prefVars, seqVars, dupVars, syncVars, solidVars, scoreVars, recVars, storeVars, accVars, peerVars, globalVars, consVars, travVars, waitAppendVars, backlogVars, tangleVars>>

\* ------------------------------------------------------------------------
\* core/vertex/vid.go: WrappedTx
\* ------------------------------------------------------------------------

Idle == [op |-> "idle", vid |-> "none", tmp |-> 0]

NoCall == [op |-> "none", vid |-> "none", res |-> "none"]

Returned(o, v, r) == [op |-> o, vid |-> v, res |-> r]

\* _newVID: the fields of a fresh WrappedTx wrapping g
_newVID(g) == [shape |-> g, flags |-> {}, err |-> "nil", references |-> 1]

\* vid.mutex.Lock() / RLock(): granted only while no writer holds the mutex
MutexFreeRacy(v) == TRUE

MutexFree(v) == mutex[v] = NoProc

\* GetTxStatusNoLock
GetTxStatusNoLock(v) ==
    IF "VertexDefined" \notin flags[v] THEN "Undefined"
    ELSE IF err[v] # "nil" THEN "Bad"
    ELSE "Good"

\* creation of a vertex v with wrapper g (WrapTxID, Wrap)
Create(v, g, o) ==
    /\ shape[v] = "none"
    /\ shape' = [shape EXCEPT ![v] = _newVID(g).shape]
    /\ flags' = [flags EXCEPT ![v] = _newVID(g).flags]
    /\ err' = [err EXCEPT ![v] = _newVID(g).err]
    /\ references' = [references EXCEPT ![v] = _newVID(g).references]
    /\ expected' = [expected EXCEPT ![v] = 1]
    /\ last' = Returned(o, v, "ok")
    /\ UNCHANGED <<mutex, pc>>
    /\ OnlyVertex

\* WrapTxID: a new virtual transaction
WrapTxID(v) == Create(v, "virtualTx", "WrapTxID")

\* Wrap: a new vertex with the full transaction
Wrap(v) == Create(v, "vertex", "Wrap")

\* the assertion of SetTxStatusGood, SetTxStatusBadNoLock
AssertUndefinedSkipped(v) == TRUE

AssertUndefined(v) == GetTxStatusNoLock(v) = "Undefined"

\* the assertion of SetTxStatusGoodNoLock
AssertNoError(v) == err[v] = "nil"

\* a status setter: the whole critical section under vid.mutex. A failed
\* assertion panics before anything is written.
StatusCall(p, v, o, passes, newErr) ==
    /\ pc[p] = Idle
    /\ shape[v] # "none"
    /\ MutexFree(v)
    /\ IF passes
         THEN /\ flags' = [flags EXCEPT ![v] = @ \cup {"VertexDefined"}]
              /\ err' = [err EXCEPT ![v] = newErr]
              /\ last' = Returned(o, v, "ok")
         ELSE /\ UNCHANGED <<flags, err>>
              /\ last' = Returned(o, v, "panic")
    /\ UNCHANGED <<shape, references, mutex, pc, expected>>
    /\ OnlyVertex

SetTxStatusGood(p, v) ==
    StatusCall(p, v, "SetTxStatusGood", AssertUndefined(v), err[v])

SetTxStatusBadNoLock(p, v, reason) ==
    StatusCall(p, v, "SetTxStatusBadNoLock", AssertUndefined(v), reason)

SetTxStatusBad(p, v, reason) ==
    StatusCall(p, v, "SetTxStatusBad", AssertUndefined(v), reason)

SetTxStatusGoodNoLock(p, v) ==
    StatusCall(p, v, "SetTxStatusGoodNoLock", AssertNoError(v), err[v])

\* Reference, first half: Lock, the test for zero, the overflow assertion and
\* the read of the counter
ReferenceRead(p, v) ==
    /\ pc[p] = Idle
    /\ shape[v] # "none"
    /\ references[v] < MaxRefs
    /\ MutexFree(v)
    /\ IF references[v] = 0
         THEN /\ last' = Returned("Reference", v, "false")
              /\ UNCHANGED <<mutex, pc>>
         ELSE IF ~(references[v] < MaxUint16)
         THEN /\ last' = Returned("Reference", v, "panic")
              /\ UNCHANGED <<mutex, pc>>
         ELSE /\ mutex' = [mutex EXCEPT ![v] = p]
              /\ pc' = [pc EXCEPT ![p] = [op |-> "Reference", vid |-> v, tmp |-> references[v]]]
              /\ UNCHANGED last
    /\ UNCHANGED <<shape, flags, err, references, expected>>
    /\ OnlyVertex

\* Reference, second half: the write of the counter, return true, Unlock
ReferenceWrite(p) ==
    /\ pc[p].op = "Reference"
    /\ LET v == pc[p].vid IN
         /\ references' = [references EXCEPT ![v] = (pc[p].tmp + 1) % (MaxUint16 + 1)]
         /\ expected' = [expected EXCEPT ![v] = @ + 1]
         /\ mutex' = [mutex EXCEPT ![v] = NoProc]
         /\ last' = Returned("Reference", v, "true")
    /\ pc' = [pc EXCEPT ![p] = Idle]
    /\ UNCHANGED <<shape, flags, err>>
    /\ OnlyVertex

\* the assertion of UnReference
AssertReferencedSkipped(v) == TRUE

AssertReferenced(v) == references[v] > 0

\* UnReference, first half: Lock, the assertion and the read of the counter
UnReferenceRead(p, v) ==
    /\ pc[p] = Idle
    /\ shape[v] # "none"
    /\ MutexFree(v)
    /\ IF AssertReferenced(v)
         THEN /\ mutex' = [mutex EXCEPT ![v] = p]
              /\ pc' = [pc EXCEPT ![p] = [op |-> "UnReference", vid |-> v, tmp |-> references[v]]]
              /\ UNCHANGED last
         ELSE /\ last' = Returned("UnReference", v, "panic")
              /\ UNCHANGED <<mutex, pc>>
    /\ UNCHANGED <<shape, flags, err, references, expected>>
    /\ OnlyVertex

\* UnReference, second half: the write of the counter, Unlock
UnReferenceWrite(p) ==
    /\ pc[p].op = "UnReference"
    /\ LET v == pc[p].vid IN
         /\ references' = [references EXCEPT ![v] = (pc[p].tmp - 1) % (MaxUint16 + 1)]
         /\ expected' = [expected EXCEPT ![v] = @ - 1]
         /\ mutex' = [mutex EXCEPT ![v] = NoProc]
         /\ last' = Returned("UnReference", v, "ok")
    /\ pc' = [pc EXCEPT ![p] = Idle]
    /\ UNCHANGED <<shape, flags, err>>
    /\ OnlyVertex

\* MarkDeleted: a vertex or a virtual transaction becomes deleted; on a
\* deleted one PanicAccessDeleted
MarkDeleted(p, v) ==
    /\ pc[p] = Idle
    /\ shape[v] # "none"
    /\ MutexFree(v)
    /\ IF shape[v] \in {"vertex", "virtualTx"}
         THEN /\ shape' = [shape EXCEPT ![v] = "deleted"]
              /\ last' = Returned("MarkDeleted", v, "ok")
         ELSE /\ UNCHANGED shape
              /\ last' = Returned("MarkDeleted", v, "panic")
    /\ UNCHANGED <<flags, err, references, mutex, pc, expected>>
    /\ OnlyVertex

\* IsDeleted
IsDeleted(v) == references[v] = 0

\* ------------------------------------------------------------------------
\* core/poker/poker.go: Poker
\* ------------------------------------------------------------------------

\* ttlWanted, in seconds
TtlWanted == 60

\* the clock is not advanced beyond MaxTime
MaxTime == 62

\* the queue holds at most MaxQueue commands
MaxQueue == 2

\* the steps by which the clock advances between two steps of the poker
ClockSteps == {30, 31}

\* the Cmd values pushed by PokeMe, PokeAllWith and periodicLoop
CmdAdd(wanted, who) == [cmd |-> "Add", wanted |-> wanted, who |-> who]

CmdPokeAll(wanted) == [cmd |-> "PokeAll", wanted |-> wanted, who |-> "nil"]

CmdPeriodicCleanup == [cmd |-> "PeriodicCleanup", wanted |-> "nil", who |-> "nil"]

\* no PokeWith call was made by the command consumed last
NoPoke == [cmd |-> "none", wanted |-> "nil", who |-> <<>>, afterSweep |-> FALSE]

EmptyMap == [x \in {} |-> 0]

\* the zero value of waitingList
ZeroList == [waiting |-> <<>>, keepUntil |-> 0]

\* c.m[wanted]: the zero value for a missing key
Lookup(mm, wanted) == IF wanted \in DOMAIN mm THEN mm[wanted] ELSE ZeroList

\* c.m[wanted] = lst
MapPut(mm, wanted, lst) ==
    [x \in DOMAIN mm \cup {wanted} |-> IF x = wanted THEN lst ELSE mm[x]]

\* delete(c.m, wanted), for each wanted of a set
MapDelete(mm, gone) == [x \in DOMAIN mm \ gone |-> mm[x]]

Range(seq) == {seq[i] : i \in 1..Len(seq)}

\* util.AppendUnique: append unless the element is in the slice
AppendUnique(seq, e) == IF e \in Range(seq) THEN seq ELSE Append(seq, e)

\* Queue.Push: the command goes to the end of the queue
Push(q, c) == Append(q, c)

\* time.Now().Add(ttlWanted)
KeepUntilStale(lst, t) == IF Len(lst.waiting) = 0 THEN t + TtlWanted ELSE lst.keepUntil

KeepUntil(lst, t) == t + TtlWanted

\* addCmd: the map after Wait(wanted, whoIsWaiting) processed at time t
addCmd(mm, wanted, whoIsWaiting, t) ==
    LET lst == Lookup(mm, wanted)
        waiting == IF Len(lst.waiting) = 0
                     THEN <<whoIsWaiting>>
                     ELSE AppendUnique(lst.waiting, whoIsWaiting)
    IN  MapPut(mm, wanted, [waiting |-> waiting, keepUntil |-> KeepUntil(lst, t)])

\* pokeAllCmd: the waiters poked, in the order of the PokeWith calls
pokeAllCmdPokes(mm, wanted) == Lookup(mm, wanted).waiting

\* pokeAllCmd: the map after PokeAll(wanted)
pokeAllCmdKeepsList(mm, wanted) == mm

pokeAllCmd(mm, wanted) ==
    IF Len(Lookup(mm, wanted).waiting) > 0 THEN MapDelete(mm, {wanted}) ELSE mm

\* nowis.After(lst.keepUntil)
ExpiredAtDeadline(lst, nowis) == nowis >= lst.keepUntil

Expired(lst, nowis) == nowis > lst.keepUntil

\* periodicCleanup: the map after a sweep at time nowis
periodicCleanup(mm, nowis) ==
    LET toDelete == {wanted \in DOMAIN mm : Expired(mm[wanted], nowis)}
    IN  MapDelete(mm, toDelete)

\* the clock advances
Tick(d) ==
    /\ now + d <= MaxTime
    /\ now' = now + d
    /\ UNCHANGED <<queue, m, poked, pending, live, lastWaitAt, survived>>
    /\ OnlyPoker

\* a producer pushes c
PushCmd(c) ==
    /\ Len(queue) < MaxQueue
    /\ queue' = Push(queue, c)
    /\ UNCHANGED <<m, now, poked, pending, live, lastWaitAt, survived>>
    /\ OnlyPoker

\* PokeMe: me waits for waitingFor
PokeMeInline(me, waitingFor) ==
    /\ m' = addCmd(m, waitingFor, me, now)
    /\ pending' = [pending EXCEPT ![waitingFor] = @ \cup {me}]
    /\ live' = [live EXCEPT ![waitingFor] = @ \cup {me}]
    /\ lastWaitAt' = [lastWaitAt EXCEPT ![waitingFor] = now]
    /\ UNCHANGED <<queue, now, poked, survived>>
    /\ OnlyPoker

PokeMe(me, waitingFor) == PushCmd(CmdAdd(waitingFor, me))

\* PokeAllWith
PokeAllWith(vid) == PushCmd(CmdPokeAll(vid))

\* periodicLoop: pushes a cleanup after each loopPeriod (1 second, shorter
\* than any step of the clock)
periodicLoop == PushCmd(CmdPeriodicCleanup)

\* consume, CommandAdd: the consumer takes a Wait off the queue
consumeAdd ==
    /\ queue # <<>>
    /\ Head(queue).cmd = "Add"
    /\ LET wanted == Head(queue).wanted
           who == Head(queue).who
       IN  /\ m' = addCmd(m, wanted, who, now)
           /\ pending' = [pending EXCEPT ![wanted] = @ \cup {who}]
           /\ live' = [live EXCEPT ![wanted] = @ \cup {who}]
           /\ lastWaitAt' = [lastWaitAt EXCEPT ![wanted] = now]
    /\ poked' = NoPoke
    /\ queue' = Tail(queue)
    /\ UNCHANGED <<now, survived>>
    /\ OnlyPoker

\* consume, CommandPokeAll
consumePokeAll ==
    /\ queue # <<>>
    /\ Head(queue).cmd = "PokeAll"
    /\ LET wanted == Head(queue).wanted
       IN  /\ poked' = [cmd |-> "PokeAll", wanted |-> wanted,
                        who |-> pokeAllCmdPokes(m, wanted),
                        afterSweep |-> survived[wanted]]
           /\ m' = pokeAllCmd(m, wanted)
           /\ pending' = [pending EXCEPT ![wanted] = {}]
           /\ live' = [live EXCEPT ![wanted] = {}]
           /\ lastWaitAt' = [lastWaitAt EXCEPT ![wanted] = 0]
           /\ survived' = [survived EXCEPT ![wanted] = FALSE]
    /\ queue' = Tail(queue)
    /\ UNCHANGED now
    /\ OnlyPoker

\* consume, CommandPeriodicCleanup
consumePeriodicCleanup ==
    /\ queue # <<>>
    /\ Head(queue).cmd = "PeriodicCleanup"
    /\ m' = periodicCleanup(m, now)
    /\ LET late(w) == live[w] # {} /\ now > lastWaitAt[w] + TtlWanted
       IN  /\ live' = [w \in VIDs |-> IF late(w) THEN {} ELSE live[w]]
           /\ lastWaitAt' = [w \in VIDs |-> IF late(w) THEN 0 ELSE lastWaitAt[w]]
    /\ survived' = [w \in VIDs |-> w \in DOMAIN m /\ w \in DOMAIN m']
    /\ poked' = NoPoke
    /\ queue' = Tail(queue)
    /\ UNCHANGED <<now, pending>>
    /\ OnlyPoker

PokerInit ==
    /\ queue = <<>>
    /\ m = EmptyMap
    /\ now = 0
    /\ poked = NoPoke
    /\ pending = [w \in VIDs |-> {}]
    /\ live = [w \in VIDs |-> {}]
    /\ lastWaitAt = [w \in VIDs |-> 0]
    /\ survived = [w \in VIDs |-> FALSE]

\* ------------------------------------------------------------------------
\* ledger: transaction ids and ledger time
\* ------------------------------------------------------------------------

\* A transaction id is its byte string. The model keeps three bytes of it:
\*   byte 1: the sequencer flag (128), the branch flag (64) and the slot,
\*   byte 2: the tick,
\*   byte 3: the transaction hash.
Slots == {0, 1}

Ticks == {0, 1}

Hashes == {0, 1}

SequencerFlag == 128

BranchFlag == 64

\* the nil *ledger.TransactionID
NilTxID == <<>>

\* the ids of sequencer transactions, with and without the branch flag
TxIDs ==
    { <<SequencerFlag + b + s, t, h>> :
          b \in {0, BranchFlag}, s \in Slots, t \in Ticks, h \in Hashes }

\* TransactionID.Timestamp: slot and tick, the flags masked out
Timestamp(txid) == <<txid[1] % BranchFlag, txid[2]>>

\* TransactionID.IsBranchTransaction
IsBranchTransaction(txid) == (txid[1] \div BranchFlag) % 2 = 1

\* Time.Before, Time.After: by slot, then by tick
Before(t1, t2) == t1[1] < t2[1] \/ (t1[1] = t2[1] /\ t1[2] < t2[2])

After(t1, t2) == Before(t2, t1)

\* bytes.Compare: -1, 0 or 1 by the first byte that differs, then by length
RECURSIVE bytesCompare(_, _)
bytesCompare(a, b) ==
    IF a = <<>> /\ b = <<>> THEN 0
    ELSE IF a = <<>> THEN -1
    ELSE IF b = <<>> THEN 1
    ELSE IF Head(a) < Head(b) THEN -1
    ELSE IF Head(a) > Head(b) THEN 1
    ELSE bytesCompare(Tail(a), Tail(b))

\* ------------------------------------------------------------------------
\* core/vertex/vid.go: the milestone preference
\* ------------------------------------------------------------------------

\* the ledger coverage sums of the model run from 0 to MaxCoverage
MaxCoverage == 1

Coverages == 0..MaxCoverage

IsPreferredBaseOlderFirst(covSum1, covSum2, txid1, txid2) ==
    IF covSum1 > covSum2 THEN TRUE
    ELSE IF covSum1 = covSum2
      THEN IF txid1 = NilTxID \/ txid2 = NilTxID THEN FALSE
           ELSE IF Timestamp(txid1) = Timestamp(txid2)
             THEN bytesCompare(txid1, txid2) > 0
             ELSE Before(Timestamp(txid1), Timestamp(txid2))
    ELSE FALSE

IsPreferredBase(covSum1, covSum2, txid1, txid2) ==
    IF covSum1 > covSum2 THEN TRUE
    ELSE IF covSum1 = covSum2
      THEN IF txid1 = NilTxID \/ txid2 = NilTxID THEN FALSE
           ELSE IF Timestamp(txid1) = Timestamp(txid2)
             THEN bytesCompare(txid1, txid2) > 0
             ELSE Before(Timestamp(txid2), Timestamp(txid1))
    ELSE FALSE

\* the nil *WrappedTx
NilVID == "nil"

\* vid.LedgerCoverageSum()
LedgerCoverageSum(v) == msData[v].cov

\* IsPreferredMilestoneAgainstTheOther
IsPreferredMilestoneAgainstTheOther(vid1, vid2) ==
    IF vid1 = vid2 THEN FALSE
    ELSE IF vid2 = NilVID THEN TRUE
    ELSE IsPreferredBase(LedgerCoverageSum(vid1), LedgerCoverageSum(vid2),
                         msData[vid1].ID, msData[vid2].ID)

\* the milestones IsPreferredBase is applied to: a coverage sum and a
\* pointer to a transaction id
PrefInputs == [cov : Coverages, txid : TxIDs \cup {NilTxID}]

PrefIdx == 1..3

NotCompared == <<>>

\* every pair of the three milestones is compared
ComparePairs ==
    /\ prefOut = NotCompared
    /\ prefOut' = [i \in PrefIdx |-> [j \in PrefIdx |->
                     IsPreferredBase(prefIn[i].cov, prefIn[j].cov,
                                     prefIn[i].txid, prefIn[j].txid)]]
    /\ UNCHANGED prefIn
    /\ OnlyPref

PrefIdle ==
    /\ prefIn = [i \in PrefIdx |-> [cov |-> 0, txid |-> NilTxID]]
    /\ prefOut = NotCompared

PrefInit ==
    /\ prefIn \in [PrefIdx -> PrefInputs]
    /\ prefOut = NotCompared

\* ------------------------------------------------------------------------
\* core/work_process/tippool/tippool.go: SequencerTips
\* ------------------------------------------------------------------------

\* ledger.ChainID: the sequencer ids
Chains == {"c1", "c2"}

NoConsume == [vid |-> NilVID, prev |-> NilVID, stored |-> FALSE]

\* vid.Timestamp()
VidTimestamp(v) == Timestamp(msData[v].ID)

\* vid.SequencerIDIfAvailable() of a sequencer milestone with its transaction
SequencerIDIfAvailable(v) == msData[v].seqID

\* vid.BaselineBranch(): a branch is its own baseline; the baseline of
\* another milestone is the branch of its slot
BaselineBranch(v) ==
    IF IsBranchTransaction(msData[v].ID) THEN msData[v].ID
    ELSE <<SequencerFlag + BranchFlag + Timestamp(msData[v].ID)[1], 0, 0>>

\* vid.Reference() as a whole: it fails on a counter of 0
ReferenceSucceeds(v) == references[v] # 0

AfterReference(refs, v) ==
    IF refs[v] = 0 THEN refs
    ELSE [refs EXCEPT ![v] = (@ + 1) % (MaxUint16 + 1)]

\* vid.UnReference() as a whole
AfterUnReference(refs, v) == [refs EXCEPT ![v] = @ - 1]

\* the replacement: inp.VID.Reference() succeeded, then old.UnReference()
SwapReferencesKeepsOld(refs, new, old) == AfterReference(refs, new)

SwapReferences(refs, new, old) == AfterUnReference(AfterReference(refs, new), old)

oldReplaceWithNewTieToOld(old, new) ==
    IF Before(VidTimestamp(old), VidTimestamp(new)) THEN TRUE
    ELSE IF After(VidTimestamp(old), VidTimestamp(new)) THEN FALSE
    ELSE IsPreferredMilestoneAgainstTheOther(old, new)

oldReplaceWithNewAlways(old, new) == TRUE

\* oldReplaceWithNew: the younger one, on equal timestamps the preferred one
oldReplaceWithNew(old, new) ==
    IF Before(VidTimestamp(old), VidTimestamp(new)) THEN TRUE
    ELSE IF After(VidTimestamp(old), VidTimestamp(new)) THEN FALSE
    ELSE IsPreferredMilestoneAgainstTheOther(new, old)

\* t.latestMilestones[seqID] = milestoneData{...}
StoreTip(seqID, v) ==
    [c \in DOMAIN latestMilestones \cup {seqID} |->
        IF c = seqID THEN [vid |-> v, BranchID |-> BaselineBranch(v)]
        ELSE latestMilestones[c]]

\* Consume: the whole handler under t.mutex
Consume(v) ==
    LET seqIDIncoming == SequencerIDIfAvailable(v)
        prevExists == seqIDIncoming \in DOMAIN latestMilestones
        old == IF prevExists THEN latestMilestones[seqIDIncoming].vid ELSE NilVID
        keep(storedNew) ==
            /\ consumed' = [vid |-> v, prev |-> old, stored |-> storedNew]
            /\ UNCHANGED <<latestMilestones, references, expected>>
    IN /\ shape[v] = "vertex"
       /\ IF prevExists /\ old = v THEN keep(FALSE)
          ELSE IF prevExists /\ ~oldReplaceWithNew(old, v) THEN keep(FALSE)
          ELSE IF ~ReferenceSucceeds(v) THEN keep(FALSE)
          ELSE IF prevExists /\ references[old] = 0
            THEN \* old.UnReference panics, nothing is stored
                 /\ references' = AfterReference(references, v)
                 /\ expected' = [expected EXCEPT ![v] = @ + 1]
                 /\ consumed' = [vid |-> v, prev |-> old, stored |-> FALSE]
                 /\ UNCHANGED latestMilestones
          ELSE /\ references' =
                     IF prevExists
                       THEN SwapReferences(references, v, old)
                       ELSE AfterReference(references, v)
               /\ expected' =
                     IF prevExists
                       THEN [expected EXCEPT ![v] = @ + 1, ![old] = @ - 1]
                       ELSE [expected EXCEPT ![v] = @ + 1]
               /\ latestMilestones' = StoreTip(seqIDIncoming, v)
               /\ consumed' = [vid |-> v, prev |-> old, stored |-> TRUE]
       /\ UNCHANGED <<msData, holders>>
       /\ OnlyTips

\* another holder (the DAG, an attacher, the backlog) takes a reference
Reference(v) ==
    /\ references[v] < MaxRefs
    /\ references' = AfterReference(references, v)
    /\ IF ReferenceSucceeds(v)
         THEN /\ holders' = [holders EXCEPT ![v] = @ + 1]
              /\ expected' = [expected EXCEPT ![v] = @ + 1]
         ELSE UNCHANGED <<holders, expected>>
    /\ consumed' = NoConsume
    /\ UNCHANGED <<latestMilestones, msData>>
    /\ OnlyTips

\* a holder releases a reference it holds
UnReference(v) ==
    /\ holders[v] > 0
    /\ AssertReferenced(v)
    /\ references' = AfterUnReference(references, v)
    /\ holders' = [holders EXCEPT ![v] = @ - 1]
    /\ expected' = [expected EXCEPT ![v] = @ - 1]
    /\ consumed' = NoConsume
    /\ UNCHANGED <<latestMilestones, msData>>
    /\ OnlyTips

\* the milestones of the model: tick 0 of a slot is its branch
MilestoneIDs == { id \in TxIDs : IsBranchTransaction(id) <=> id[2] = 0 }

MilestoneData == [ID : MilestoneIDs, seqID : Chains, cov : Coverages]

TipsIdle ==
    /\ latestMilestones = <<>>
    /\ msData = [v \in VIDs |->
                   [ID |-> <<SequencerFlag + BranchFlag, 0, 0>>, seqID |-> "c1", cov |-> 0]]
    /\ holders = [v \in VIDs |-> 0]
    /\ consumed = NoConsume

\* an empty pool and the milestones attached, each held once by the DAG;
\* one vertex per transaction id
TipsInit ==
    /\ latestMilestones = <<>>
    /\ msData \in [VIDs -> MilestoneData]
    /\ \A v, w \in VIDs : v # w => msData[v].ID # msData[w].ID
    /\ holders = [v \in VIDs |-> 1]
    /\ consumed = NoConsume

\* the vertices of the milestones: attached, Good, one reference each
VtxAttachedInit ==
    /\ shape = [v \in VIDs |-> "vertex"]
    /\ flags = [v \in VIDs |-> {"VertexDefined"}]
    /\ err = [v \in VIDs |-> "nil"]
    /\ references = [v \in VIDs |-> _newVID("vertex").references]
    /\ mutex = [v \in VIDs |-> NoProc]
    /\ pc = [p \in Procs |-> Idle]
    /\ expected = [v \in VIDs |-> 1]
    /\ last = NoCall

\* ------------------------------------------------------------------------
\* ledger: arithmetic of the ledger time <<slot, tick>>
\* ------------------------------------------------------------------------

\* the ticks of one slot (ledger identity: MaxTickValueInSlot + 1)
TicksPerSlot == 7

\* the protocol floor of the sequencer pace (ledger identity)
TransactionPaceSequencer == 2

\* ledger.NilLedgerTime
NilLedgerTime == <<0, 0>>

TimeTicks(t) == t[1] * TicksPerSlot + t[2]

TimeFromTicks(n) == <<n \div TicksPerSlot, n % TicksPerSlot>>

\* Time.AddTicks
AddTicks(t, n) == TimeFromTicks(TimeTicks(t) + n)

\* ledger.DiffTicks(t1, t2)
DiffTicks(t1, t2) == TimeTicks(t1) - TimeTicks(t2)

\* ledger.MaxTime
ledgerMaxTime(t1, t2) == IF Before(t1, t2) THEN t2 ELSE t1

\* Time.NextSlotBoundary: a time on a boundary is its own boundary
NextSlotBoundary(t) == IF t[2] = 0 THEN t ELSE <<t[1] + 1, 0>>

\* Time.TicksToNextSlotBoundary
TicksToNextSlotBoundary(t) == IF t[2] = 0 THEN 0 ELSE TicksPerSlot - t[2]

\* ledger.ValidSequencerPace
ValidSequencerPace(t1, t2) == DiffTicks(t2, t1) >= TransactionPaceSequencer

\* ------------------------------------------------------------------------
\* sequencer: the main loop of one sequencer
\* ------------------------------------------------------------------------

\* the largest pace of the model
MaxPace == 5

\* the ledger time stops at this number of ticks
MaxSeqTicks == 14

\* submitTimeout (5 s) in ticks
SubmitTimeoutTicks == 2

\* the values of max_branches of the model
MaxBranchesOptions == {0, 1, 2}

\* the values of max_target_ts of the model
MaxTargetTsOptions == {NilLedgerTime, <<1, 0>>, <<1, 3>>}

ConfigOptions ==
    [Pace : TransactionPaceSequencer..MaxPace,
     MaxBranches : MaxBranchesOptions,
     MaxTargetTs : MaxTargetTsOptions]

NoStep == [kind |-> "none", target |-> NilLedgerTime, prev |-> NilLedgerTime, nowis |-> NilLedgerTime]

getNextTargetTimeRoundsFromNow(prevMilestoneTs, nowis, pace) ==
    IF TicksToNextSlotBoundary(nowis) <= pace
      THEN NextSlotBoundary(nowis)
      ELSE ledgerMaxTime(AddTicks(prevMilestoneTs, pace), AddTicks(nowis, 1))

getNextTargetTimeNoMinimumAhead(prevMilestoneTs, nowis, pace) ==
    LET targetAbsoluteMinimum ==
            ledgerMaxTime(AddTicks(prevMilestoneTs, pace), AddTicks(nowis, 1))
        nextSlotBoundary == NextSlotBoundary(nowis)
    IN IF ~Before(targetAbsoluteMinimum, nextSlotBoundary) THEN targetAbsoluteMinimum
       ELSE IF TicksToNextSlotBoundary(targetAbsoluteMinimum) <= pace THEN nextSlotBoundary
       ELSE targetAbsoluteMinimum

\* getNextTargetTime, once the clock has reached prevMilestoneTs
getNextTargetTime(prevMilestoneTs, nowis, pace) ==
    LET targetAbsoluteMinimum ==
            ledgerMaxTime(AddTicks(prevMilestoneTs, pace), AddTicks(nowis, 1))
        nextSlotBoundary == NextSlotBoundary(nowis)
        minimumTicksAheadFromNow == (pace * 2) \div 3
        targetAbsoluteMinimum2 ==
            ledgerMaxTime(targetAbsoluteMinimum, AddTicks(nowis, minimumTicksAheadFromNow))
    IN IF ~Before(targetAbsoluteMinimum, nextSlotBoundary) THEN targetAbsoluteMinimum
       ELSE IF ~Before(targetAbsoluteMinimum2, nextSlotBoundary) THEN targetAbsoluteMinimum2
       ELSE IF TicksToNextSlotBoundary(targetAbsoluteMinimum2) <= pace THEN nextSlotBoundary
       ELSE targetAbsoluteMinimum2

\* the ledger time advances by one tick
SeqTick ==
    /\ TimeTicks(seqNow) < MaxSeqTicks
    /\ seqNow' = AddTicks(seqNow, 1)
    /\ UNCHANGED <<config, seqPc, ownLatestMilestone, milestoneCount, branchCount,
                   prevTimeTarget, seqMs, seqDeadline, tipOwn, seqStep>>
    /\ OnlySeq

ReachedMaxBranchesLate == config.MaxBranches # 0 /\ branchCount > config.MaxBranches

\* doSequencerStep: the limit of branch milestones
ReachedMaxBranches == config.MaxBranches # 0 /\ branchCount >= config.MaxBranches

AfterMaxTargetTsIgnored(targetTs) == FALSE

\* doSequencerStep: the limit of the target time
AfterMaxTargetTs(targetTs) ==
    config.MaxTargetTs # NilLedgerTime /\ After(targetTs, config.MaxTargetTs)

\* doSequencerStep up to the call of SequencerMilestoneAttachWait. The factory
\* proposes a milestone with the target as its timestamp or nothing; the
\* attacher returns the vertex or an error.
doSequencerStep(result) ==
    /\ seqPc = "loop"
    \* getNextTargetTime sleeps until the clock has reached the own latest milestone
    /\ ReachedMaxBranches \/ ~Before(seqNow, ownLatestMilestone)
    /\ LET targetTs == getNextTargetTime(ownLatestMilestone, seqNow, config.Pace)
           step(k) == [kind |-> k, target |-> targetTs,
                       prev |-> ownLatestMilestone, nowis |-> seqNow]
       IN IF ReachedMaxBranches
            THEN /\ seqPc' = "stopped"
                 /\ seqStep' = [NoStep EXCEPT !.kind = "stopMaxBranches"]
                 /\ UNCHANGED <<prevTimeTarget, seqMs, seqDeadline>>
          ELSE IF ~ValidSequencerPace(ownLatestMilestone, targetTs)
                  \/ Before(targetTs, prevTimeTarget)
            THEN /\ seqPc' = "panic"
                 /\ seqStep' = step("panic")
                 /\ UNCHANGED <<prevTimeTarget, seqMs, seqDeadline>>
          ELSE IF AfterMaxTargetTs(targetTs)
            THEN /\ seqPc' = "stopped"
                 /\ prevTimeTarget' = targetTs
                 /\ seqStep' = step("stopMaxTargetTs")
                 /\ UNCHANGED <<seqMs, seqDeadline>>
          ELSE IF result = "noProposal"
            THEN /\ seqPc' = "loop"
                 /\ prevTimeTarget' = targetTs
                 /\ seqStep' = step("noProposal")
                 /\ UNCHANGED <<seqMs, seqDeadline>>
          ELSE IF result = "attachError"
            THEN /\ seqPc' = "loop"
                 /\ prevTimeTarget' = targetTs
                 /\ seqStep' = step("submitFailed")
                 /\ UNCHANGED <<seqMs, seqDeadline>>
          ELSE /\ seqPc' = "waitTip"
               /\ prevTimeTarget' = targetTs
               /\ seqMs' = targetTs
               /\ seqDeadline' = AddTicks(seqNow, SubmitTimeoutTicks)
               /\ seqStep' = step("submitted")
    /\ UNCHANGED <<config, seqNow, ownLatestMilestone, milestoneCount, branchCount, tipOwn>>
    /\ OnlySeq

\* the tips pool stores the submitted milestone as the tip of the chain
TipPoolStores ==
    /\ seqPc = "waitTip"
    /\ tipOwn # seqMs
    /\ tipOwn' = seqMs
    /\ UNCHANGED <<config, seqNow, seqPc, ownLatestMilestone, milestoneCount, branchCount,
                   prevTimeTarget, seqMs, seqDeadline, seqStep>>
    /\ OnlySeq

\* msVID.IsBranchTransaction(): a sequencer milestone on a slot boundary
IsBranchMilestone(ts) == ts[2] = 0

waitMilestoneInTippoolCountsFailure ==
    /\ seqPc = "waitTip"
    /\ IF After(seqNow, seqDeadline)
         THEN /\ seqStep' = [seqStep EXCEPT !.kind = "submitFailed"]
              /\ milestoneCount' = milestoneCount + 1
              /\ UNCHANGED <<ownLatestMilestone, branchCount>>
         ELSE /\ tipOwn = seqMs
              /\ ownLatestMilestone' = seqMs
              /\ milestoneCount' = milestoneCount + 1
              /\ branchCount' = IF IsBranchMilestone(seqMs) THEN branchCount + 1 ELSE branchCount
              /\ seqStep' = [seqStep EXCEPT !.kind = "registered"]
    /\ seqPc' = "loop"
    /\ UNCHANGED <<config, seqNow, prevTimeTarget, seqMs, seqDeadline, tipOwn>>
    /\ OnlySeq

\* waitMilestoneInTippool and the rest of doSequencerStep: the poll that
\* ends the wait, after the deadline or with the milestone as the tip
waitMilestoneInTippool ==
    /\ seqPc = "waitTip"
    /\ IF After(seqNow, seqDeadline)
         THEN /\ seqStep' = [seqStep EXCEPT !.kind = "submitFailed"]
              /\ UNCHANGED <<ownLatestMilestone, milestoneCount, branchCount>>
         ELSE /\ tipOwn = seqMs
              /\ ownLatestMilestone' = seqMs
              /\ milestoneCount' = milestoneCount + 1
              /\ branchCount' = IF IsBranchMilestone(seqMs) THEN branchCount + 1 ELSE branchCount
              /\ seqStep' = [seqStep EXCEPT !.kind = "registered"]
    /\ seqPc' = "loop"
    /\ UNCHANGED <<config, seqNow, prevTimeTarget, seqMs, seqDeadline, tipOwn>>
    /\ OnlySeq

\* Stop: the context of the sequencer is cancelled, mainLoop returns
Stop ==
    /\ seqPc = "loop"
    /\ seqPc' = "stopped"
    /\ seqStep' = [NoStep EXCEPT !.kind = "stopCtx"]
    /\ UNCHANGED <<config, seqNow, ownLatestMilestone, milestoneCount, branchCount,
                   prevTimeTarget, seqMs, seqDeadline, tipOwn>>
    /\ OnlySeq

SeqIdle ==
    /\ config = [Pace |-> TransactionPaceSequencer, MaxBranches |-> 0, MaxTargetTs |-> NilLedgerTime]
    /\ seqNow = NilLedgerTime
    /\ seqPc = "stopped"
    /\ ownLatestMilestone = NilLedgerTime
    /\ milestoneCount = 0
    /\ branchCount = 0
    /\ prevTimeTarget = NilLedgerTime
    /\ seqMs = NilLedgerTime
    /\ seqDeadline = NilLedgerTime
    /\ tipOwn = NilLedgerTime
    /\ seqStep = NoStep

\* the starting milestones of the model
StartMilestones == {<<0, 0>>, <<0, 3>>}

\* New and ensureFirstMilestone: the starting milestone is the own latest
\* and the tip of the chain, the clock has reached it
SeqInit ==
    /\ config \in ConfigOptions
    /\ ownLatestMilestone \in StartMilestones
    /\ seqNow = ownLatestMilestone
    /\ seqPc = "loop"
    /\ milestoneCount = 0
    /\ branchCount = 0
    /\ prevTimeTarget = NilLedgerTime
    /\ seqMs = NilLedgerTime
    /\ seqDeadline = NilLedgerTime
    /\ tipOwn = ownLatestMilestone
    /\ seqStep = NoStep

\* ------------------------------------------------------------------------
\* workflow: the primary input consumer and the duplicates
\* ------------------------------------------------------------------------

\* the distinct valid transactions submitted
TxSet == {"t1", "t2"}

\* every transaction is submitted at most MaxRuns times
MaxRuns == 3

\* the occurrences of x in the sequence q
Occurrences(q, x) == Cardinality({i \in 1..Len(q) : q[i] = x})

\* UTXOTangle.HasTransactionOnTangle
HasTransactionOnTangle(txid) == txid \in vertices

\* SeenSet.Seen: has the id been seen; the id is in the set afterwards
Seen(txid) == txid \in seenSet

isDuplicateOnTangleOnly(txid) == HasTransactionOnTangle(txid)

\* PrimaryConsumer.isDuplicate
isDuplicate(txid) == HasTransactionOnTangle(txid) \/ Seen(txid)

\* Workflow.TransactionIn: the transaction is pushed to the primary consumer
TransactionIn(tx) ==
    /\ submitted[tx] < MaxRuns
    /\ submitted' = [submitted EXCEPT ![tx] = @ + 1]
    /\ primaryQueue' = Append(primaryQueue, tx)
    /\ UNCHANGED <<seenSet, vertices, preValidateQueue, outCount, duplicateEvents, newVertexEvents>>
    /\ OnlyDup

\* PrimaryConsumer.consume of the next input
consume ==
    /\ primaryQueue # <<>>
    /\ LET tx == Head(primaryQueue)
       IN /\ IF isDuplicate(tx)
               THEN /\ duplicateEvents' = [duplicateEvents EXCEPT ![tx] = @ + 1]
                    /\ UNCHANGED <<outCount, preValidateQueue>>
               ELSE /\ outCount' = [outCount EXCEPT ![tx] = @ + 1]
                    /\ preValidateQueue' = Append(preValidateQueue, tx)
                    /\ UNCHANGED duplicateEvents
          \* Seen is called only when the transaction is not on the tangle
          /\ seenSet' = IF HasTransactionOnTangle(tx) THEN seenSet ELSE seenSet \cup {tx}
    /\ primaryQueue' = Tail(primaryQueue)
    /\ UNCHANGED <<vertices, submitted, newVertexEvents>>
    /\ OnlyDup

\* downstream: a valid transaction passed by the primary consumer becomes a
\* vertex of the tangle and EventNewVertex is posted
AppendVertex ==
    /\ preValidateQueue # <<>>
    /\ LET tx == Head(preValidateQueue)
       IN /\ vertices' = vertices \cup {tx}
          /\ newVertexEvents' = [newVertexEvents EXCEPT ![tx] = @ + 1]
    /\ preValidateQueue' = Tail(preValidateQueue)
    /\ UNCHANGED <<primaryQueue, seenSet, submitted, outCount, duplicateEvents>>
    /\ OnlyDup

\* initPrimaryInputConsumer: nothing seen, nothing on the tangle
DupInit ==
    /\ primaryQueue = <<>>
    /\ seenSet = {}
    /\ vertices = {}
    /\ preValidateQueue = <<>>
    /\ submitted = [tx \in TxSet |-> 0]
    /\ outCount = [tx \in TxSet |-> 0]
    /\ duplicateEvents = [tx \in TxSet |-> 0]
    /\ newVertexEvents = [tx \in TxSet |-> 0]

\* ------------------------------------------------------------------------
\* core/syncmgr/sync.go: SyncManager
\* ------------------------------------------------------------------------

\* the ticks of the wall clock in one slot
SyncSlotTicks == 2

\* portionExpectedIn (5 s) in ticks of the wall clock
PortionExpectedIn == 1

\* the wall clock stops at this tick
MaxWall == 13

\* time.Time{}
ZeroTime == 0

\* the values of sync_portion_slots of the model
SyncPortionOptions == {1, 3}

\* the values of sync_tolerance_threshold_slots of the model
SyncToleranceOptions == {2, 3}

SyncConfigOptions ==
    [syncPortionSlots : SyncPortionOptions,
     syncToleranceThresholdSlots : SyncToleranceOptions]

\* ledger.TimeNow().Slot()
SlotNow == wall \div SyncSlotTicks

NoIgnore == [txSlot |-> -1, ret |-> FALSE, fresh |-> FALSE]

NoSyncStep == [kind |-> "none", latest |-> 0, slotNow |-> 0, startingFrom |-> 0, maxSlots |-> 0]

\* the wall clock advances by one tick
SyncTick ==
    /\ wall < MaxWall
    /\ wall' = wall + 1
    /\ syncStep' = NoSyncStep
    /\ UNCHANGED <<syncConfig, dbLatestSlot, latestSlotInDB,
                   syncPortionRequestedAtLeastUntilSlot, syncPortionDeadline, portionPulled>>
    /\ ignoreFuture' = NoIgnore
    /\ OnlySync

\* a branch of the next slot is committed to the state DB
CommitBranch ==
    /\ dbLatestSlot < SlotNow
    /\ dbLatestSlot' = dbLatestSlot + 1
    /\ syncStep' = NoSyncStep
    /\ UNCHANGED <<syncConfig, wall, latestSlotInDB,
                   syncPortionRequestedAtLeastUntilSlot, syncPortionDeadline, portionPulled>>
    /\ ignoreFuture' = NoIgnore
    /\ OnlySync

SyncedWithinOneLess(behind) == behind < syncConfig.syncToleranceThresholdSlots

\* checkSync: synced or almost synced
SyncedWithin(behind) == behind <= syncConfig.syncToleranceThresholdSlots

StillWaitingForPortionNoDeadline(latest) ==
    latest < syncPortionRequestedAtLeastUntilSlot

\* checkSync: the portion pulled is not here yet and its deadline is ahead
StillWaitingForPortion(latest) ==
    latest < syncPortionRequestedAtLeastUntilSlot /\ wall < syncPortionDeadline

\* checkSync: the whole call
checkSync ==
    LET latest == dbLatestSlot
        slotNow == SlotNow
        behind == slotNow - latest
        step(k) == [kind |-> k, latest |-> latest, slotNow |-> slotNow,
                    startingFrom |-> 0, maxSlots |-> 0]
        until == latest + syncConfig.syncPortionSlots
    IN /\ latestSlotInDB' = latest
       /\ IF SyncedWithin(behind)
            THEN /\ syncPortionRequestedAtLeastUntilSlot' = 0
                 /\ syncPortionDeadline' = ZeroTime
                 /\ syncStep' = step("synced")
                 /\ UNCHANGED portionPulled
          ELSE IF StillWaitingForPortion(latest)
            THEN /\ syncStep' = step("waiting")
                 /\ UNCHANGED <<syncPortionRequestedAtLeastUntilSlot, syncPortionDeadline,
                                portionPulled>>
          ELSE /\ syncPortionRequestedAtLeastUntilSlot' =
                     IF until > slotNow THEN slotNow ELSE until
               /\ syncPortionDeadline' = wall + PortionExpectedIn
               /\ syncStep' = [step("pull") EXCEPT !.startingFrom = latest,
                                                   !.maxSlots = syncConfig.syncPortionSlots]
               /\ portionPulled' = TRUE
       /\ ignoreFuture' = NoIgnore
       /\ UNCHANGED <<syncConfig, wall, dbLatestSlot>>
       /\ OnlySync

IgnoreFutureTxIDNoTolerance(txSlot) == txSlot > latestSlotInDB

\* IgnoreFutureTxID
IgnoreFutureTxID(txSlot) ==
    /\ txSlot > latestSlotInDB
    /\ txSlot - latestSlotInDB > syncConfig.syncToleranceThresholdSlots

\* a call of IgnoreFutureTxID for a transaction of slot txSlot
CallIgnoreFutureTxID(txSlot) ==
    /\ ignoreFuture' = [txSlot |-> txSlot, ret |-> IgnoreFutureTxID(txSlot),
                        fresh |-> syncStep.kind # "none"]
    /\ syncStep' = NoSyncStep
    /\ UNCHANGED <<syncConfig, wall, dbLatestSlot, latestSlotInDB,
                   syncPortionRequestedAtLeastUntilSlot, syncPortionDeadline, portionPulled>>
    /\ OnlySync

SyncIdle ==
    /\ syncConfig = [syncPortionSlots |-> 1, syncToleranceThresholdSlots |-> 2]
    /\ wall = 1
    /\ dbLatestSlot = 0
    /\ latestSlotInDB = 0
    /\ syncPortionRequestedAtLeastUntilSlot = 0
    /\ syncPortionDeadline = ZeroTime
    /\ syncStep = NoSyncStep
    /\ portionPulled = FALSE
    /\ ignoreFuture = NoIgnore

\* StartSyncManagerFromConfig: the state DB is at a slot up to the current
\* one, nothing is requested
SyncInit ==
    /\ syncConfig \in SyncConfigOptions
    /\ wall \in 1..MaxWall
    /\ dbLatestSlot \in 0..SlotNow
    /\ latestSlotInDB = 0
    /\ syncPortionRequestedAtLeastUntilSlot = 0
    /\ syncPortionDeadline = ZeroTime
    /\ syncStep = NoSyncStep
    /\ portionPulled = FALSE
    /\ ignoreFuture = NoIgnore

\* ------------------------------------------------------------------------
\* utangle_old/solidify.go and the attachers: a chain of dependent
\* transactions, each consuming an output of the one before it
\* ------------------------------------------------------------------------

\* the transactions in the order of their dependencies
ChainTxs == <<"tx1", "tx2", "tx3">>

SolidTxs == Range(ChainTxs)

\* the genesis, on the tangle from the start
Genesis == "genesis"

\* the transaction the input of t is an output of
Dependency(t) ==
    LET i == CHOOSE k \in 1..Len(ChainTxs) : ChainTxs[k] = t
    IN IF i = 1 THEN Genesis ELSE ChainTxs[i - 1]

\* the input is solid: its transaction is on the tangle with status Good
InputSolid(t) == Dependency(t) = Genesis \/ attacher[Dependency(t)] = "good"

\* the bytes of t arrive and pass the parse: its attacher is started
TransactionInSolid(t) ==
    /\ attacher[t] = "none"
    /\ attacher' = [attacher EXCEPT ![t] = "run"]
    /\ UNCHANGED <<pokeChan, queue, m>>
    /\ OnlySolid

\* FetchMissingDependencies and the publication: with the input solid the
\* transaction is solid, gets the status Good and the poker is told to poke
\* all who wait for it; with the input missing the attacher goes on to
\* register with the poker
FetchMissingDependencies(t) ==
    /\ attacher[t] = "run"
    /\ IF InputSolid(t)
         THEN /\ Len(queue) < MaxQueue
              /\ attacher' = [attacher EXCEPT ![t] = "good"]
              /\ queue' = Push(queue, CmdPokeAll(t))
         ELSE /\ attacher' = [attacher EXCEPT ![t] = "register"]
              /\ UNCHANGED queue
    /\ UNCHANGED <<pokeChan, m>>
    /\ OnlySolid

\* PokeMe(t, dependency) and the suspension of the attacher
PokeMeSuspend(t) ==
    /\ attacher[t] = "register"
    /\ Len(queue) < MaxQueue
    /\ queue' = Push(queue, CmdAdd(Dependency(t), t))
    /\ attacher' = [attacher EXCEPT ![t] = "suspended"]
    /\ UNCHANGED <<pokeChan, m>>
    /\ OnlySolid

\* the suspended attacher takes the wake signal of the poker and runs again
Resume(t) ==
    /\ attacher[t] = "suspended"
    /\ pokeChan[t]
    /\ pokeChan' = [pokeChan EXCEPT ![t] = FALSE]
    /\ attacher' = [attacher EXCEPT ![t] = "run"]
    /\ UNCHANGED <<queue, m>>
    /\ OnlySolid

TimeoutWakeRearms(t) ==
    /\ attacher[t] = "suspended"
    /\ UNCHANGED <<attacher, pokeChan, queue, m>>
    /\ OnlySolid

\* the timeout of the suspended attacher wakes it: it runs again
TimeoutWake(t) ==
    /\ attacher[t] = "suspended"
    /\ attacher' = [attacher EXCEPT ![t] = "run"]
    /\ UNCHANGED <<pokeChan, queue, m>>
    /\ OnlySolid

\* consume, CommandAdd, with attachers as the waiters
consumeAddSolid ==
    /\ queue # <<>>
    /\ Head(queue).cmd = "Add"
    /\ m' = addCmd(m, Head(queue).wanted, Head(queue).who, now)
    /\ queue' = Tail(queue)
    /\ UNCHANGED <<attacher, pokeChan>>
    /\ OnlySolid

\* consume, CommandPokeAll: PokeWith puts a wake signal on the channel of
\* each waiting attacher
consumePokeAllSolid ==
    /\ queue # <<>>
    /\ Head(queue).cmd = "PokeAll"
    /\ LET wanted == Head(queue).wanted
       IN  /\ pokeChan' = [t \in SolidTxs |->
                             pokeChan[t] \/ t \in Range(pokeAllCmdPokes(m, wanted))]
           /\ m' = pokeAllCmd(m, wanted)
    /\ queue' = Tail(queue)
    /\ UNCHANGED attacher
    /\ OnlySolid

\* nothing is submitted yet
SolidInit ==
    /\ attacher = [t \in SolidTxs |-> "none"]
    /\ pokeChan = [t \in SolidTxs |-> FALSE]

\* ------------------------------------------------------------------------
\* multistate: the coverage threshold of a root record, and the inclusion
\* score of a transaction (api: CalcTxInclusionScore)
\* ------------------------------------------------------------------------

\* the width of the unsigned integers of a root record (uint64 in the code)
UintBits == 4

UintMod == 2 ^ UintBits

\* the largest denominator of the model
MaxDenominator == 4

\* the largest number of tips in the inclusion vector
MaxTips == 4

\* ValidInclusionThresholdFraction
ValidInclusionThresholdFraction(numerator, denominator) ==
    numerator > 0 /\ denominator > 0 /\ numerator < denominator /\ denominator >= 2

Fractions ==
    { f \in (1..MaxDenominator) \X (1..MaxDenominator) :
          ValidInclusionThresholdFraction(f[1], f[2]) }

\* AbsoluteStrongFinalityCoverageThreshold: ((supply / d) * n) << 1 in
\* unsigned arithmetic of UintBits bits
AbsoluteStrongFinalityCoverageThreshold(supply, numerator, denominator) ==
    ((((supply \div denominator) * numerator) % UintMod) * 2) % UintMod

\* RootRecord.IsCoverageAboveThreshold, on a valid fraction
IsCoverageAboveThreshold(r, numerator, denominator) ==
    r.LedgerCoverage >
        AbsoluteStrongFinalityCoverageThreshold(r.Supply, numerator, denominator)

\* the root records of the model: every coverage and supply of the width
RootRecords == [LedgerCoverage : 0..(UintMod - 1), Supply : 0..(UintMod - 1)]

\* the root records of the tips of an inclusion vector
TipRootRecords == [LedgerCoverage : {1, 3}, Supply : {2}]

TipInclusions == [Included : BOOLEAN, RootRecord : TipRootRecords]

NoScore == [WeakScore |-> -1, StrongScore |-> -1]

\* the loop of CalcTxInclusionScore over inclusion[i..]: the three counters
RECURSIVE countInclusion(_, _, _, _, _)
countInclusion(incl, i, numerator, denominator, acc) ==
    IF i > Len(incl) THEN acc
    ELSE LET included == incl[i].Included
             dominating == IsCoverageAboveThreshold(incl[i].RootRecord, numerator, denominator)
         IN countInclusion(incl, i + 1, numerator, denominator,
                [includedInBranches |->
                     acc.includedInBranches + (IF included THEN 1 ELSE 0),
                 numDominatingBranches |->
                     acc.numDominatingBranches + (IF dominating THEN 1 ELSE 0),
                 numIncludedInDominating |->
                     acc.numIncludedInDominating
                         + (IF dominating /\ included THEN 1 ELSE 0)])

CalcTxInclusionScoreOverAllTips(incl, numerator, denominator) ==
    IF Len(incl) = 0 THEN [WeakScore |-> 0, StrongScore |-> 0]
    ELSE LET c == countInclusion(incl, 1, numerator, denominator,
                     [includedInBranches |-> 0, numDominatingBranches |-> 0,
                      numIncludedInDominating |-> 0])
         IN [WeakScore |-> (c.includedInBranches * 100) \div Len(incl),
             StrongScore |->
                 IF c.numDominatingBranches > 0
                   THEN (c.numIncludedInDominating * 100) \div Len(incl)
                   ELSE 0]

\* CalcTxInclusionScore: the two scores
CalcTxInclusionScore(incl, numerator, denominator) ==
    IF Len(incl) = 0 THEN [WeakScore |-> 0, StrongScore |-> 0]
    ELSE LET c == countInclusion(incl, 1, numerator, denominator,
                     [includedInBranches |-> 0, numDominatingBranches |-> 0,
                      numIncludedInDominating |-> 0])
         IN [WeakScore |-> (c.includedInBranches * 100) \div Len(incl),
             StrongScore |->
                 IF c.numDominatingBranches > 0
                   THEN (c.numIncludedInDominating * 100) \div c.numDominatingBranches
                   ELSE 0]

\* a call of rootRecord.IsCoverageAboveThreshold
CallIsCoverageAboveThreshold ==
    /\ aboveThreshold = "none"
    /\ aboveThreshold' =
           IF IsCoverageAboveThreshold(rootRecord, thresholdNumerator, thresholdDenominator)
             THEN "true" ELSE "false"
    /\ UNCHANGED <<thresholdNumerator, thresholdDenominator, rootRecord, inclusion, score>>
    /\ OnlyScore

\* a call of CalcTxInclusionScore
CallCalcTxInclusionScore ==
    /\ score = NoScore
    /\ score' = CalcTxInclusionScore(inclusion, thresholdNumerator, thresholdDenominator)
    /\ UNCHANGED <<thresholdNumerator, thresholdDenominator, rootRecord, aboveThreshold,
                   inclusion>>
    /\ OnlyScore

ScoreIdle ==
    /\ thresholdNumerator = 1
    /\ thresholdDenominator = 2
    /\ rootRecord = [LedgerCoverage |-> 0, Supply |-> 0]
    /\ aboveThreshold = "none"
    /\ inclusion = <<>>
    /\ score = NoScore

\* a root record and a valid fraction
RootInit ==
    /\ \E f \in Fractions : thresholdNumerator = f[1] /\ thresholdDenominator = f[2]
    /\ rootRecord \in RootRecords
    /\ aboveThreshold = "none"
    /\ inclusion = <<>>
    /\ score = NoScore

\* an inclusion vector and a valid fraction
ScoreInit ==
    /\ \E f \in Fractions : thresholdNumerator = f[1] /\ thresholdDenominator = f[2]
    /\ rootRecord = [LedgerCoverage |-> 0, Supply |-> 0]
    /\ aboveThreshold = "none"
    /\ inclusion \in UNION { [1..k -> TipInclusions] : k \in 0..MaxTips }
    /\ score = NoScore

\* ------------------------------------------------------------------------
\* multistate: RootRecord.Bytes and RootRecordFromBytes
\* ------------------------------------------------------------------------

\* the largest value of a byte of the model
ByteMax == 1

ByteBase == ByteMax + 1

\* the bytes of a uint64 and of a uint32
Uint64Len == 8

Uint32Len == 4

\* the bytes of a chain id and of a vector commitment in the model
ChainIDLength == 2

CommitmentLength == 2

numberOfElementsInRootRecord == 6

\* binary.BigEndian.PutUint64, PutUint32: the n low bytes, the highest first
RECURSIVE PutUint(_, _)
PutUint(v, n) ==
    IF n = 0 THEN <<>> ELSE Append(PutUint(v \div ByteBase, n - 1), v % ByteBase)

RECURSIVE UintLittleEndian(_)
UintLittleEndian(b) ==
    IF b = <<>> THEN 0 ELSE Head(b) + ByteBase * UintLittleEndian(Tail(b))

\* binary.BigEndian.Uint64, Uint32
RECURSIVE Uint(_)
Uint(b) ==
    IF b = <<>> THEN 0 ELSE Uint(SubSeq(b, 1, Len(b) - 1)) * ByteBase + b[Len(b)]

\* lazybytes: the array as bytes, each element after its length
RECURSIVE ArrayBytes(_)
ArrayBytes(elems) ==
    IF elems = <<>> THEN <<>>
    ELSE <<Len(Head(elems))>> \o Head(elems) \o ArrayBytes(Tail(elems))

Malformed == <<"malformed">>

\* lazybytes: the elements of the bytes, Malformed when a length runs
\* past the end
RECURSIVE ParseElements(_)
ParseElements(data) ==
    IF data = <<>> THEN <<>>
    ELSE IF Len(data) - 1 < data[1] THEN Malformed
    ELSE LET rest == ParseElements(SubSeq(data, data[1] + 2, Len(data)))
         IN IF rest = Malformed THEN Malformed
            ELSE <<SubSeq(data, 2, data[1] + 1)>> \o rest

\* lazybytes.ParseArrayFromBytesReadOnly(data, num): the elements or "error"
ParseArrayFromBytesReadOnly(data, num) ==
    LET elems == ParseElements(data)
    IN IF elems = Malformed \/ Len(elems) # num THEN "error" ELSE elems

ZeroRecord ==
    [SequencerID |-> <<>>, Root |-> <<>>, LedgerCoverage |-> 0, SlotInflation |-> 0,
     Supply |-> 0, NumTransactions |-> 0]

\* RootRecord.Bytes
Bytes(r) ==
    ArrayBytes(<<r.SequencerID, r.Root,
                 PutUint(r.LedgerCoverage, Uint64Len), PutUint(r.SlotInflation, Uint64Len),
                 PutUint(r.Supply, Uint64Len), PutUint(r.NumTransactions, Uint32Len)>>)

Decoded(e, r) == [err |-> e, rec |-> r]

RootRecordFromBytesUnchecked(data) ==
    LET arr == ParseArrayFromBytesReadOnly(data, numberOfElementsInRootRecord)
    IN IF arr = "error" THEN Decoded("parse", ZeroRecord)
       ELSE IF Len(arr[1]) # ChainIDLength THEN Decoded("chainID", ZeroRecord)
       ELSE IF Len(arr[2]) # CommitmentLength THEN Decoded("commitment", ZeroRecord)
       ELSE Decoded("nil",
                [SequencerID |-> arr[1], Root |-> arr[2],
                 LedgerCoverage |-> Uint(arr[3]), SlotInflation |-> Uint(arr[4]),
                 Supply |-> Uint(arr[5]), NumTransactions |-> Uint(arr[6])])

\* RootRecordFromBytes
RootRecordFromBytes(data) ==
    LET arr == ParseArrayFromBytesReadOnly(data, numberOfElementsInRootRecord)
    IN IF arr = "error" THEN Decoded("parse", ZeroRecord)
       ELSE IF Len(arr[1]) # ChainIDLength THEN Decoded("chainID", ZeroRecord)
       ELSE IF Len(arr[2]) # CommitmentLength THEN Decoded("commitment", ZeroRecord)
       ELSE IF Len(arr[3]) # Uint64Len \/ Len(arr[4]) # Uint64Len
                \/ Len(arr[5]) # Uint64Len \/ Len(arr[6]) # Uint32Len
         THEN Decoded("wrong data length", ZeroRecord)
       ELSE Decoded("nil",
                [SequencerID |-> arr[1], Root |-> arr[2],
                 LedgerCoverage |-> Uint(arr[3]), SlotInflation |-> Uint(arr[4]),
                 Supply |-> Uint(arr[5]), NumTransactions |-> Uint(arr[6])])

NoData == <<"none">>

NoDecode == Decoded("none", ZeroRecord)

\* r.Bytes() of a valid record
CallBytes ==
    /\ recData = NoData
    /\ recIn # ZeroRecord
    /\ recData' = Bytes(recIn)
    /\ UNCHANGED <<recIn, recOut>>
    /\ OnlyRec

\* RootRecordFromBytes(data)
CallRootRecordFromBytes ==
    /\ recData # NoData
    /\ recOut = NoDecode
    /\ recOut' = RootRecordFromBytes(recData)
    /\ UNCHANGED <<recIn, recData>>
    /\ OnlyRec

\* the byte strings of a length over the bytes of the model
ByteStrings(n) == [1..n -> 0..ByteMax]

\* the valid records of the model: a coverage above 0
ValidRecords ==
    [SequencerID : ByteStrings(ChainIDLength), Root : ByteStrings(CommitmentLength),
     LedgerCoverage : {1, 129, 255}, SlotInflation : {0, 128},
     Supply : {3, 254}, NumTransactions : {0, 9, 15}]

\* the elements of a record, the element i resized to n bytes
Resized(elems, i, n) ==
    [elems EXCEPT ![i] = [k \in 1..n |-> IF k <= Len(elems[i]) THEN elems[i][k] ELSE 0]]

\* bytes that are not a root record: an element missing or added, an
\* element a byte short or long, the bytes cut or with a stray byte
CorruptData ==
    LET elems == <<PutUint(1, ChainIDLength), PutUint(2, CommitmentLength),
                   PutUint(5, Uint64Len), PutUint(1, Uint64Len),
                   PutUint(7, Uint64Len), PutUint(2, Uint32Len)>>
        data == ArrayBytes(elems)
    IN  { ArrayBytes(SubSeq(elems, 1, 5)), ArrayBytes(Append(elems, <<0>>)),
          SubSeq(data, 1, Len(data) - 1), Append(data, 1), <<>> }
        \cup { ArrayBytes(Resized(elems, i, Len(elems[i]) + d)) :
                  i \in 1..6, d \in {-1, 1} }

RecIdle ==
    /\ recIn = ZeroRecord
    /\ recData = NoData
    /\ recOut = NoDecode

\* a valid record not yet encoded, or bytes from elsewhere
RecInit ==
    /\ recOut = NoDecode
    /\ \/ recIn \in ValidRecords /\ recData = NoData
       \/ recIn = ZeroRecord /\ recData \in CorruptData

\* ------------------------------------------------------------------------
\* multistate: the root records and the latest slot in the state store
\* ------------------------------------------------------------------------

\* the slots of the branches of the model run from 0 to MaxStoreSlot
MaxStoreSlot == 1

\* at most MaxRoots root records are written
MaxRoots == MaxStoreSlot + 2

\* FetchHeaviestBranchChainNSlotsBack is called with nBack up to MaxBack
MaxBack == 2

\* the width of a slot (uint32 in the code)
SlotBits == 3

SlotMod == 2 ^ SlotBits

\* the branch transactions: a slot and what tells the branches of a slot apart
BranchIDs == (0..MaxStoreSlot) \X {"a", "b"}

\* the ledger coverages of the branches of the model
CoverageOptions == {1, 2}

\* the stem predecessor of the first branch is outside the store
NoBranch == <<0, "none">>

\* TransactionID.Slot
SlotOf(txid) == txid[1]

\* Slot.Bytes, ledger.SlotFromBytes: 4 bytes, big-endian
SlotBytes(slot) == PutUint(slot, Uint32Len)

FetchLatestSlotUnchecked(bin) == IF Len(bin) = 0 THEN 1 ELSE Uint(bin)

\* FetchLatestSlot
FetchLatestSlot(bin) == IF Len(bin) = 0 THEN 0 ELSE Uint(bin)

\* the committing attacher: the slot is newer than the latest one
IsNewer(slot, bin) == slot > FetchLatestSlot(bin)

NoChain == [nBack |-> -1, ids |-> <<>>]

\* writeRootRecord and, for a newer slot, writeLatestSlot
putRoot(txid, rd) ==
    /\ txid \notin DOMAIN rootRecs
    /\ Cardinality(DOMAIN rootRecs) < MaxRoots
    /\ rd.Predecessor = NoBranch
         \/ (rd.Predecessor \in DOMAIN rootRecs /\ SlotOf(rd.Predecessor) < SlotOf(txid))
    /\ rootRecs' = MapPut(rootRecs, txid, rd)
    /\ latestBin' = IF IsNewer(SlotOf(txid), latestBin) THEN SlotBytes(SlotOf(txid))
                    ELSE latestBin
    /\ lastRoot' = txid
    /\ chain' = NoChain
    /\ OnlyStore

\* util.MakeRange(from, toIncl): empty when from is above toIncl
MakeRange(from, toIncl) == from..toIncl

\* iterateAllRootRecords
RootDataAll(nBack) == DOMAIN rootRecs

RootDataOfAnySlot(nBack) == DOMAIN rootRecs

\* IterateRootRecords over the slots latestSlot-nBack..latestSlot, the
\* subtraction in the width of a slot; with no slot, over all records
RootData(nBack) ==
    LET latestSlot == FetchLatestSlot(latestBin)
        slots == MakeRange((latestSlot - (nBack % SlotMod)) % SlotMod, latestSlot)
    IN IF slots = {} THEN RootDataAll(nBack)
       ELSE { txid \in RootDataAll(nBack) : SlotOf(txid) \in slots }

\* util.SortKeys: the ids descending by slot
RECURSIVE SortKeys(_)
SortKeys(ids) ==
    IF ids = {} THEN <<>>
    ELSE LET k == CHOOSE x \in ids : \A y \in ids : SlotOf(x) >= SlotOf(y)
         IN <<k>> \o SortKeys(ids \ {k})

\* the loop over sortedTxIDs from index i on: the branches appended after lastInTheChain
RECURSIVE walkChain(_, _, _)
walkChain(sortedTxIDs, i, lastInTheChain) ==
    IF i > Len(sortedTxIDs) THEN <<>>
    ELSE LET txid == sortedTxIDs[i]
         IN IF SlotOf(txid) = SlotOf(lastInTheChain)
              THEN walkChain(sortedTxIDs, i + 1, lastInTheChain)
            ELSE IF txid # rootRecs[lastInTheChain].Predecessor
              THEN walkChain(sortedTxIDs, i + 1, lastInTheChain)
            ELSE <<txid>> \o walkChain(sortedTxIDs, i + 1, txid)

\* FetchLatestBranches: the branches of the latest slot
LatestBranches ==
    { txid \in DOMAIN rootRecs : SlotOf(txid) = FetchLatestSlot(latestBin) }

\* FetchHeaviestBranchChainNSlotsBack(nBack) on a store with a branch; first
\* is the branch the loop over latestBD ends with, one of the highest coverage
FetchHeaviestBranchChainNSlotsBack(nBack, first) ==
    /\ first \in LatestBranches
    /\ \A bd \in LatestBranches :
           rootRecs[bd].LedgerCoverage <= rootRecs[first].LedgerCoverage
    /\ chain' = [nBack |-> nBack,
                 ids |-> <<first>> \o walkChain(SortKeys(RootData(nBack)), 1, first)]
    /\ UNCHANGED <<rootRecs, latestBin, lastRoot>>
    /\ OnlyStore

\* an empty store
StoreInit ==
    /\ rootRecs = EmptyMap
    /\ latestBin = <<>>
    /\ lastRoot = NoBranch
    /\ chain = NoChain

\* ------------------------------------------------------------------------
\* core/vertex/vid.go: access to a wrapped transaction by its shape
\* ------------------------------------------------------------------------

\* a transaction of the model produces the output of index 0 only
OutputIndices == {0, 1}

NumProducedOutputs == 1

\* _vertex._outputAt, _virtualTx._outputAt, _deletedTx._outputAt
_outputAt(g, idx) ==
    CASE g = "vertex" -> IF idx >= NumProducedOutputs THEN "error" ELSE "output"
      [] g = "virtualTx" -> IF idx >= NumProducedOutputs THEN "nil" ELSE "output"
      [] g = "deleted" -> "ErrDeletedVertexAccessed"

\* _vertex._hasOutputAt, _virtualTx._hasOutputAt, _deletedTx._hasOutputAt
_hasOutputAt(g, idx) ==
    CASE g = "vertex" -> IF idx >= NumProducedOutputs THEN "false, true" ELSE "true, false"
      [] g = "virtualTx" -> IF idx < NumProducedOutputs THEN "true, false" ELSE "false, false"
      [] g = "deleted" -> "false, false"

\* UnwrapOptions: the handlers that are not nil
UnwrapOptions == SUBSET {"Vertex", "VirtualTx", "Deleted"}

\* _unwrap: the handler called, "none" when it is nil
_unwrap(g, opt) ==
    CASE g = "vertex" -> IF "Vertex" \in opt THEN "Vertex" ELSE "none"
      [] g = "virtualTx" -> IF "VirtualTx" \in opt THEN "VirtualTx" ELSE "none"
      [] g = "deleted" -> IF "Deleted" \in opt THEN "Deleted" ELSE "none"

WrappedTxBaselineBranchUnwrapped(v) ==
    IF _unwrap(shape[v], {"Vertex"}) = "Vertex" THEN baselineBranch[v] ELSE NilVID

\* WrappedTx.BaselineBranch by the shape of the wrapped transaction
WrappedTxBaselineBranch(v) ==
    IF isBranch[v] THEN v
    ELSE IF _unwrap(shape[v], {"Vertex"}) = "Vertex" THEN baselineBranch[v]
    ELSE NilVID

\* a call on the wrapped transaction v that returns res and changes nothing
AccessCall(o, v, res) ==
    /\ shape[v] # "none"
    /\ MutexFree(v)
    /\ last' = Returned(o, v, res)
    /\ UNCHANGED <<shape, isBranch, baselineBranch>>
    /\ OnlyAccess

\* OutputAt
OutputAt(v, idx) == AccessCall("OutputAt", v, _outputAt(shape[v], idx))

\* HasOutputAt
HasOutputAt(v, idx) == AccessCall("HasOutputAt", v, _hasOutputAt(shape[v], idx))

\* Unwrap, RUnwrap
Unwrap(v, opt) == AccessCall("Unwrap", v, _unwrap(shape[v], opt))

\* a call of BaselineBranch
CallBaselineBranch(v) == AccessCall("BaselineBranch", v, WrappedTxBaselineBranch(v))

\* the wrapper ConvertToVirtualTx leaves in place of the wrapper g
convertedToVirtualTxAlways(g) == "virtualTx"

convertedToVirtualTx(g) == IF g = "vertex" THEN "virtualTx" ELSE g

\* ConvertToVirtualTx: a vertex becomes a virtual transaction, which has no
\* baseline; on a deleted one PanicAccessDeleted
ConvertToVirtualTx(v) ==
    /\ shape[v] # "none"
    /\ MutexFree(v)
    /\ shape' = [shape EXCEPT ![v] = convertedToVirtualTx(@)]
    /\ baselineBranch' = [baselineBranch EXCEPT ![v] = IF shape[v] = "vertex" THEN NilVID ELSE @]
    /\ last' = Returned("ConvertToVirtualTx", v, IF shape[v] = "deleted" THEN "panic" ELSE "ok")
    /\ UNCHANGED isBranch
    /\ OnlyAccess

\* ConvertVirtualTxToVertexNoLock with the vertex of the transaction tx: a
\* virtual transaction with the same id becomes a vertex with no baseline
\* yet; with another id, or on any other shape, an assertion fails
ConvertVirtualTxToVertexNoLock(v, tx) ==
    /\ shape[v] # "none"
    /\ shape' = [shape EXCEPT ![v] = IF v = tx /\ @ = "virtualTx" THEN "vertex" ELSE @]
    /\ last' = Returned("ConvertVirtualTxToVertexNoLock", v,
                        IF v # tx THEN "txid-s do not match"
                        ELSE IF shape[v] # "virtualTx" THEN "virtual tx target expected"
                        ELSE "ok")
    /\ UNCHANGED <<isBranch, baselineBranch>>
    /\ OnlyAccess

\* the attacher records the baseline branch it has chosen on the vertex
SetBaselineBranch(v, b) ==
    /\ shape[v] = "vertex"
    /\ MutexFree(v)
    /\ baselineBranch[v] = NilVID
    /\ shape[b] # "none"
    /\ isBranch[b]
    /\ isBranch[v] => b = v
    /\ baselineBranch' = [baselineBranch EXCEPT ![v] = b]
    /\ last' = Returned("SetBaselineBranch", v, b)
    /\ UNCHANGED <<shape, isBranch>>
    /\ OnlyAccess

AccessIdle ==
    /\ isBranch = [v \in VIDs |-> FALSE]
    /\ baselineBranch = [v \in VIDs |-> NilVID]

\* the transaction ids are any, none has a baseline
AccessInit ==
    /\ isBranch \in [VIDs -> BOOLEAN]
    /\ baselineBranch = [v \in VIDs |-> NilVID]

\* ------------------------------------------------------------------------
\* peering: the peers, the blacklist and the gossip stream handler
\* ------------------------------------------------------------------------

\* time.Minute in the time steps of the model
Minute == 2

\* the peering is followed until MaxPeerTime
MaxPeerTime == 4

\* the pre-configured peers and the peers found by autopeering
StaticPeers == {"s1"}

DynamicPeers == {"d1"}

PeerIDs == StaticPeers \cup DynamicPeers

\* the goroutines of the gossip streams
Streams == {"h1", "h2"}

\* what reading a stream ends with
StreamErrors == {"nil", "readFrame", "SplitTxBytesWithMetadata", "TransactionMetadataFromBytes"}

NoStream == [pc |-> "idle", id |-> "nil", blacklisted |-> FALSE]

\* time passes
PeerTick ==
    /\ peerNow < MaxPeerTime
    /\ peerNow' = peerNow + 1
    /\ UNCHANGED <<peers, blacklist, gossip>>
    /\ OnlyPeers

\* addPeer, _addPeer: ignored for a peer already known
addPeer(id, static) ==
    /\ id \notin DOMAIN peers
    /\ static = (id \in StaticPeers)
    /\ peers' = MapPut(peers, id, [isStatic |-> static])
    /\ UNCHANGED <<blacklist, peerNow, gossip>>
    /\ OnlyPeers

\* _addToBlacklist
_addToBlacklist(bl, id, ttl, nowis) == MapPut(bl, id, nowis + ttl)

\* _dropPeer
_dropPeer(ps, bl, id, nowis) ==
    [peers |-> MapDelete(ps, {id}), blacklist |-> _addToBlacklist(bl, id, Minute, nowis)]

dropPeerAlsoStatic(ps, bl, id, nowis) ==
    IF id \in DOMAIN ps THEN _dropPeer(ps, bl, id, nowis)
    ELSE [peers |-> ps, blacklist |-> bl]

\* dropPeer: removes a dynamic peer and blacklists it, ignores otherwise
dropPeer(ps, bl, id, nowis) ==
    IF id \in DOMAIN ps /\ ~ps[id].isStatic THEN _dropPeer(ps, bl, id, nowis)
    ELSE [peers |-> ps, blacklist |-> bl]

\* isInBlacklist
isInBlacklist(id) == id \in DOMAIN blacklist

\* cleanBlacklist: the entries whose deadline is before now are deleted
cleanBlacklist ==
    /\ blacklist' = MapDelete(blacklist, {id \in DOMAIN blacklist : blacklist[id] < peerNow})
    /\ UNCHANGED <<peers, peerNow, gossip>>
    /\ OnlyPeers

\* gossipStreamHandler: a stream of peer id comes; reset if it is blacklisted
gossipCheckBlacklist(h, id) ==
    /\ gossip[h].pc \notin {"checked", "found"}
    /\ gossip' = [gossip EXCEPT ![h] =
                     [pc |-> IF isInBlacklist(id) THEN "reset" ELSE "checked",
                      id |-> id, blacklisted |-> isInBlacklist(id)]]
    /\ UNCHANGED <<peers, blacklist, peerNow>>
    /\ OnlyPeers

\* gossipStreamHandler: getPeer; reset if the peer is not found
gossipGetPeer(h) ==
    /\ gossip[h].pc = "checked"
    /\ gossip' = [gossip EXCEPT ![h].pc =
                     IF gossip[h].id \in DOMAIN peers THEN "found" ELSE "reset"]
    /\ UNCHANGED <<peers, blacklist, peerNow>>
    /\ OnlyPeers

\* gossipStreamHandler: the frame is read and parsed; on an error the stream
\* is reset and the peer dropped, otherwise the message goes to onReceiveTx
gossipRead(h, e) ==
    /\ gossip[h].pc = "found"
    /\ LET dropped == dropPeer(peers, blacklist, gossip[h].id, peerNow)
       IN IF e # "nil"
            THEN /\ peers' = dropped.peers
                 /\ blacklist' = dropped.blacklist
                 /\ gossip' = [gossip EXCEPT ![h].pc = "failed"]
            ELSE /\ UNCHANGED <<peers, blacklist>>
                 /\ gossip' = [gossip EXCEPT ![h].pc = "onReceiveTx"]
    /\ UNCHANGED peerNow
    /\ OnlyPeers

PeersIdle ==
    /\ peers = EmptyMap
    /\ blacklist = EmptyMap
    /\ peerNow = 0
    /\ gossip = [h \in Streams |-> NoStream]

\* New: the static peers of the configuration are added, the blacklist is empty
PeersInit ==
    /\ peers = [id \in StaticPeers |-> [isStatic |-> TRUE]]
    /\ blacklist = EmptyMap
    /\ peerNow = 0
    /\ gossip = [h \in Streams |-> NoStream]

\* ------------------------------------------------------------------------
\* global: the work processes and MustWaitAllWorkProcessesStop
\* ------------------------------------------------------------------------

\* the wait is called with a timeout of 1..MaxTimeout sleeps
MaxTimeout == 2

\* the clock of the node runs until MaxGlobalTime
MaxGlobalTime == 5

\* time.Sleep(5 * time.Millisecond) is the unit of the time
SleepTime == 1

WorkProcesses == {"c1", "c2"}

NoWait == [pc |-> "idle", deadline |-> 0, wakeAt |-> 0, result |-> "none"]

\* MarkWorkProcessStarted
MarkWorkProcessStarted(name) ==
    /\ name \notin components
    /\ components' = components \cup {name}
    /\ UNCHANGED <<globalNow, wait>>
    /\ OnlyGlobal

\* MarkWorkProcessStopped
MarkWorkProcessStopped(name) ==
    /\ name \in components
    /\ components' = components \ {name}
    /\ UNCHANGED <<globalNow, wait>>
    /\ OnlyGlobal

\* time passes while the wait is not running, or sleeps and is not due
GlobalTick ==
    /\ globalNow < MaxGlobalTime
    /\ wait.pc \in {"idle", "returned"} \/ (wait.pc = "sleep" /\ globalNow < wait.wakeAt)
    /\ globalNow' = globalNow + 1
    /\ UNCHANGED <<components, wait>>
    /\ OnlyGlobal

\* MustWaitAllWorkProcessesStop(timeout): the deadline is set
MustWaitAllWorkProcessesStop(timeout) ==
    /\ wait.pc \in {"idle", "returned"}
    /\ globalNow + timeout + SleepTime <= MaxGlobalTime
    /\ wait' = [pc |-> "check", deadline |-> globalNow + timeout, wakeAt |-> 0, result |-> "none"]
    /\ UNCHANGED <<components, globalNow>>
    /\ OnlyGlobal

\* the loop: return when no component is left, sleep otherwise
waitCheck ==
    /\ wait.pc = "check"
    /\ wait' = IF components = {}
                 THEN [wait EXCEPT !.pc = "returned", !.result = "all stopped"]
               ELSE [wait EXCEPT !.pc = "sleep", !.wakeAt = globalNow + SleepTime]
    /\ UNCHANGED <<components, globalNow>>
    /\ OnlyGlobal

TimeAfterNever(nowis, deadline) == FALSE

\* time.Now().After(deadline)
TimeAfter(nowis, deadline) == nowis > deadline

\* the loop after the sleep: return when the deadline has passed, the
\* components still running are logged
waitWake ==
    /\ wait.pc = "sleep"
    /\ globalNow >= wait.wakeAt
    /\ wait' = IF TimeAfter(globalNow, wait.deadline)
                 THEN [wait EXCEPT !.pc = "returned", !.result = "exceeded timeout"]
               ELSE [wait EXCEPT !.pc = "check"]
    /\ UNCHANGED <<components, globalNow>>
    /\ OnlyGlobal

\* NewDefault: no component, the wait is not called
GlobalInit ==
    /\ components = {}
    /\ globalNow = 0
    /\ wait = NoWait

\* ------------------------------------------------------------------------
\* core/vertex/vid.go: the consumers of the outputs of a wrapped transaction
\* ------------------------------------------------------------------------

\* the outputs consumed and the transactions that consume them
ConsumedIndices == {0, 1}

Consumers == {"t1", "t2", "t3"}

\* the checks of conflicts the attachers hand to AttachConsumer
ConflictChecks == {"none", "double spend", "any"}

\* checkConflicts(existingConsumers)
checkConflicts(check, existingConsumers) ==
    CASE check = "none" -> FALSE
      [] check = "double spend" -> Cardinality(existingConsumers) > 1
      [] check = "any" -> TRUE

outputConsumersReplaced(cons, outputIndex, consumer) == {consumer}

\* AttachConsumer: the consumers of the output with the new one
outputConsumers(cons, outputIndex, consumer) ==
    IF outputIndex \notin DOMAIN cons THEN {consumer}
    ELSE cons[outputIndex] \cup {consumer}

NoAttach == [idx |-> -1, consumer |-> "nil", check |-> "none", ret |-> FALSE, before |-> <<>>]

\* AttachConsumer
AttachConsumer(outputIndex, consumer, check) ==
    LET after == outputConsumers(consumedOutputs, outputIndex, consumer)
    IN /\ consumedOutputs' = MapPut(consumedOutputs, outputIndex, after)
       /\ attached' = [idx |-> outputIndex, consumer |-> consumer, check |-> check,
                       ret |-> ~checkConflicts(check, after), before |-> consumedOutputs]
       /\ OnlyConsumed

\* ConsumersOf: a clone of the set
ConsumersOf(cons, outIdx) == IF outIdx \in DOMAIN cons THEN cons[outIdx] ELSE {}

\* NumConsumers: the consumed outputs and the conflict sets
NumConsumers(cons) ==
    <<Cardinality(DOMAIN cons),
      Cardinality({i \in DOMAIN cons : Cardinality(cons[i]) > 1})>>

\* _newVID: no output is consumed
ConsumedInit ==
    /\ consumedOutputs = EmptyMap
    /\ attached = NoAttach

\* ------------------------------------------------------------------------
\* core/vertex/vid.go: TraversePastConeDepthFirst
\* ------------------------------------------------------------------------

\* the wrapped transactions of the graph; the traverse starts at the first
ConeVertices == {"a", "b", "c"}

ConeTip == "a"

\* a dependency is a wrapped transaction or nil while it is not solid
ConeDependencies == ConeVertices \cup {NilVID}

\* the numbers of inputs and of endorsements of the vertices
NumConeInputs == [v \in ConeVertices |-> IF v = ConeTip THEN 2 ELSE 1]

NumConeEndorsements == [v \in ConeVertices |-> IF v = "c" THEN 0 ELSE 1]

\* the transactions with any dependencies, solid or not
ConeTxs(v) ==
    [shape : {"vertex"}, Inputs : [1..NumConeInputs[v] -> ConeDependencies],
     Endorsements : [1..NumConeEndorsements[v] -> ConeDependencies]]

\* the graphs: any input and any endorsement for every vertex, cycles included
PastCones ==
    { g \in [ConeVertices -> UNION {ConeTxs(v) : v \in ConeVertices}] :
        \A v \in ConeVertices : g[v] \in ConeTxs(v) }

\* one of the dependencies may be a virtual or a deleted transaction
WithShape(g, v, s) == [g EXCEPT ![v].shape = s]

RECURSIVE _traversePastCone(_, _, _, _)
RECURSIVE forEachDependency(_, _, _, _, _)

\* the callback of the options: it is recorded, it returns false on stop
callback(vid, stop, st) ==
    [st EXCEPT !.events = Append(@, <<"call", vid>>), !.ret = vid \notin stop]

\* ForEachInputDependency, ForEachEndorsement with the function handed to
\* them by _traversePastCone: nil is skipped, false ends the loop
forEachDependency(g, deps, i, stop, st) ==
    IF i > Len(deps) THEN st
    ELSE IF deps[i] = NilVID THEN forEachDependency(g, deps, i + 1, stop, st)
    ELSE LET sub == _traversePastCone(g, deps[i], stop, st)
         IN IF sub.ret THEN forEachDependency(g, deps, i + 1, stop, sub) ELSE sub

VertexCallbackFirst(g, vid, stop, st) ==
    LET called == callback(vid, stop, st)
        inputs == IF called.ret
                    THEN forEachDependency(g, g[vid].Inputs, 1, stop, called) ELSE called
    IN IF inputs.ret
         THEN forEachDependency(g, g[vid].Endorsements, 1, stop, inputs) ELSE inputs

\* _traversePastCone, the function for a vertex: the inputs, the
\* endorsements, then the callback
VertexTraverse(g, vid, stop, st) ==
    LET inputs == forEachDependency(g, g[vid].Inputs, 1, stop, st)
        endorsements == IF inputs.ret
                          THEN forEachDependency(g, g[vid].Endorsements, 1, stop, inputs)
                        ELSE inputs
    IN IF endorsements.ret THEN callback(vid, stop, endorsements) ELSE endorsements

\* _traversePastCone
_traversePastCone(g, vid, stop, st) ==
    IF vid \in st.visited THEN [st EXCEPT !.ret = TRUE]
    ELSE LET entered == [st EXCEPT !.visited = @ \cup {vid},
                                   !.events = Append(@, <<"enter", vid>>),
                                   !.ret = TRUE]
         IN IF g[vid].shape = "vertex" THEN VertexTraverse(g, vid, stop, entered)
            ELSE callback(vid, stop, entered)

NoTraverse == [visited |-> {}, events |-> <<>>, ret |-> TRUE, done |-> FALSE]

\* TraversePastConeDepthFirst from the tip
TraversePastConeDepthFirst ==
    /\ ~traversed.done
    /\ traversed' = [_traversePastCone(pastCone, ConeTip, traverseOpt.stop,
                                       [NoTraverse EXCEPT !.visited = traverseOpt.visited])
                       EXCEPT !.done = TRUE]
    /\ UNCHANGED <<pastCone, traverseOpt>>
    /\ OnlyTraverse

TraverseIdle ==
    /\ pastCone = [v \in ConeVertices |->
                     [shape |-> "vertex", Inputs |-> [i \in 1..NumConeInputs[v] |-> NilVID],
                      Endorsements |-> [i \in 1..NumConeEndorsements[v] |-> NilVID]]]
    /\ traverseOpt = [stop |-> {}, visited |-> {}]
    /\ traversed = NoTraverse

\* any graph, the last vertex of any shape, any one vertex stopping the
\* traverse, any one vertex other than the tip visited already
TraverseInit ==
    /\ \E g \in PastCones, s \in {"vertex", "virtualTx", "deleted"} :
          pastCone = WithShape(g, "c", s)
    /\ \E stop \in {{}} \cup {{v} : v \in ConeVertices},
          visited \in {{}} \cup {{v} : v \in ConeVertices \ {ConeTip}} :
          traverseOpt = [stop |-> stop, visited |-> visited]
    /\ traversed = NoTraverse

\* ------------------------------------------------------------------------
\* core/syncmgr/sync.go: Workflow.TransactionInWaitAppend
\* ------------------------------------------------------------------------

\* the goroutines of the workflow that raise an event with the prefix
\* "finish" for the transaction
Callbacks == {"c1", "c2", "c3"}

AppendCaller == "caller"

\* TransactionInReturnTx: an inactive workflow or bytes that do not parse
\* return an error; otherwise the options are applied and the transaction is
\* pushed to the primary input consumer
TransactionInReturnTx(running, parsed) ==
    /\ appendPc = "start"
    /\ IF running /\ parsed
         THEN /\ pushed' = TRUE
              /\ appendPc' = "select"
              /\ UNCHANGED appendResult
         ELSE /\ appendPc' = "deferred"
              /\ appendResult' = "error"
              /\ UNCHANGED pushed
    /\ UNCHANGED <<closeMutex, closed, errCh, callbackPc>>
    /\ OnlyWaitAppend

\* a consumer finishes with the transaction and calls eventCallback with a
\* "finish" event
FinishEvent(c) ==
    /\ pushed
    /\ callbackPc[c] = "idle"
    /\ callbackPc' = [callbackPc EXCEPT ![c] = "called"]
    /\ UNCHANGED <<appendPc, appendResult, pushed, closeMutex, closed, errCh>>
    /\ OnlyWaitAppend

\* the callback: closeMutex.Lock(); with closed set it returns, otherwise it
\* starts to send on errCh holding the mutex; a send on a closed channel
\* panics
callbackLock(c) ==
    /\ callbackPc[c] = "called"
    /\ closeMutex = NoProc
    /\ IF closed
         THEN /\ callbackPc' = [callbackPc EXCEPT ![c] = "done"]
              /\ UNCHANGED closeMutex
         ELSE IF errCh = "closed"
         THEN /\ callbackPc' = [callbackPc EXCEPT ![c] = "panic"]
              /\ UNCHANGED closeMutex
         ELSE /\ callbackPc' = [callbackPc EXCEPT ![c] = "sending"]
              /\ closeMutex' = c
    /\ UNCHANGED <<appendPc, appendResult, pushed, closed, errCh>>
    /\ OnlyWaitAppend

\* select, case err = <-errCh: errCh has no buffer, the send of a callback
\* and the receive happen together
receive(c) ==
    /\ appendPc = "select"
    /\ callbackPc[c] = "sending"
    /\ appendPc' = "deferred"
    /\ appendResult' = "finish"
    /\ callbackPc' = [callbackPc EXCEPT ![c] = "sent"]
    /\ UNCHANGED <<pushed, closeMutex, closed, errCh>>
    /\ OnlyWaitAppend

\* the callback after the send: the deferred closeMutex.Unlock()
callbackUnlock(c) ==
    /\ callbackPc[c] = "sent"
    /\ callbackPc' = [callbackPc EXCEPT ![c] = "done"]
    /\ closeMutex' = NoProc
    /\ UNCHANGED <<appendPc, appendResult, pushed, closed, errCh>>
    /\ OnlyWaitAppend

\* select, case <-time.After(timeout)
timeAfter ==
    /\ appendPc = "select"
    /\ appendPc' = "deferred"
    /\ appendResult' = "timeout"
    /\ UNCHANGED <<pushed, closeMutex, closed, errCh, callbackPc>>
    /\ OnlyWaitAppend

\* the deferred function: closeMutex.Lock()
deferLock ==
    /\ appendPc = "deferred"
    /\ closeMutex = NoProc
    /\ closeMutex' = AppendCaller
    /\ appendPc' = "closing"
    /\ UNCHANGED <<appendResult, pushed, closed, errCh, callbackPc>>
    /\ OnlyWaitAppend

\* the deferred function: close(errCh); a sender blocked on the channel
\* panics
deferClose ==
    /\ appendPc = "closing"
    /\ errCh' = "closed"
    /\ appendPc' = "unlocking"
    /\ callbackPc' = [c \in Callbacks |-> IF callbackPc[c] = "sending" THEN "panic" ELSE callbackPc[c]]
    /\ UNCHANGED <<appendResult, pushed, closeMutex, closed>>
    /\ OnlyWaitAppend

\* the deferred function: closed = true, closeMutex.Unlock(), and the call
\* returns
deferUnlock ==
    /\ appendPc = "unlocking"
    /\ closed' = TRUE
    /\ closeMutex' = NoProc
    /\ appendPc' = "returned"
    /\ UNCHANGED <<appendResult, pushed, errCh, callbackPc>>
    /\ OnlyWaitAppend

\* a call of TransactionInWaitAppend starts: errCh is made, closed is false
WaitAppendInit ==
    /\ appendPc = "start"
    /\ appendResult = "none"
    /\ pushed = FALSE
    /\ closeMutex = NoProc
    /\ closed = FALSE
    /\ errCh = "open"
    /\ callbackPc = [c \in Callbacks |-> "idle"]

\* ------------------------------------------------------------------------
\* sequencer backlog (unnamed/part_004): InputBacklog
\* ------------------------------------------------------------------------

\* the ttl of an output in the backlog, BacklogTTLSlots slots
BacklogTTL == 1

MaxBacklogTime == 2

\* the goroutines that deliver outputs of the account to the listener
Listeners == {"l1", "l2"}

\* vertex.WrappedOutput
WrappedOutputs == [VID : VIDs, Index : OutputIndices]

\* the candidates: a branch transaction; a good vertex; a good vertex with a
\* chain-constrained output; a virtual transaction; a vertex with the status
\* Bad; a deleted transaction still referenced; a transaction with no
\* references
TxKinds == {"branch", "good", "chain", "virtual", "bad", "deleted", "unreferenced"}

NoBacklogStep == [kind |-> "none", why |-> "none", n |-> 0]

ListenerIdle == [pc |-> "idle", wOut |-> [VID |-> NilVID, Index |-> 0]]

\* wOut.VID.IsBranchTransaction()
IsBranchCandidate(wOut) == txKind[wOut.VID] = "branch"

\* o.ChainConstraint() of the output finds a chain constraint
ChainConstrained(wOut) == txKind[wOut.VID] = "chain"

\* the listener l ends without storing: the candidate is rejected
rejected(l, why) ==
    /\ listener' = [listener EXCEPT ![l] = ListenerIdle]
    /\ backlogStep' = [kind |-> "rejected", why |-> why, n |-> 0]

\* wOut.VID.UnReference() on a rejected candidate
releaseRejectedKept(refs, v) == refs

releaseRejected(refs, v) == AfterUnReference(refs, v)

\* the account listener is called with wOut; checkAndReferenceCandidate up
\* to Reference
listenerReference(l, wOut) ==
    /\ listener[l].pc = "idle"
    /\ IF IsBranchCandidate(wOut)
         THEN rejected(l, "is branch") /\ UNCHANGED <<references, expected>>
         ELSE IF ~ReferenceSucceeds(wOut.VID)
         THEN rejected(l, "failed to reference") /\ UNCHANGED <<references, expected>>
         ELSE /\ references' = AfterReference(references, wOut.VID)
              /\ expected' = [expected EXCEPT ![wOut.VID] = @ + 1]
              /\ listener' = [listener EXCEPT ![l] = [pc |-> "referenced", wOut |-> wOut]]
              /\ backlogStep' = NoBacklogStep
    /\ UNCHANGED <<txKind, outputs, backlogNow>>
    /\ OnlyBacklog

\* checkAndReferenceCandidate after Reference: the status, OutputAt and the
\* chain constraint
listenerCheck(l) ==
    LET wOut == listener[l].wOut
        o == _outputAt(shape[wOut.VID], wOut.Index)
        release(why) ==
            /\ references' = releaseRejected(references, wOut.VID)
            /\ expected' = [expected EXCEPT ![wOut.VID] = @ - 1]
            /\ rejected(l, why)
    IN /\ listener[l].pc = "referenced"
       /\ IF GetTxStatusNoLock(wOut.VID) = "Bad" THEN release("is BAD")
          ELSE IF o \in {"error", "ErrDeletedVertexAccessed"} THEN release("OutputAt failed")
          ELSE IF o # "nil" /\ ChainConstrained(wOut) THEN release("is chain-constrained")
          ELSE /\ listener' = [listener EXCEPT ![l].pc = "checked"]
               /\ backlogStep' = NoBacklogStep
               /\ UNCHANGED <<references, expected>>
       /\ UNCHANGED <<txKind, outputs, backlogNow>>
       /\ OnlyBacklog

\* the account listener after the check, under the mutex of the backlog: an
\* output already in the map is released, a new one is stored
listenerStore(l) ==
    LET wOut == listener[l].wOut
    IN /\ listener[l].pc = "checked"
       /\ IF wOut \in DOMAIN outputs
            THEN /\ references' = releaseRejected(references, wOut.VID)
                 /\ expected' = [expected EXCEPT ![wOut.VID] = @ - 1]
                 /\ rejected(l, "already in the backlog")
                 /\ UNCHANGED outputs
            ELSE /\ outputs' = MapPut(outputs, wOut, backlogNow)
                 /\ listener' = [listener EXCEPT ![l] = ListenerIdle]
                 /\ backlogStep' = [kind |-> "stored", why |-> "none", n |-> 1]
                 /\ UNCHANGED <<references, expected>>
       /\ UNCHANGED <<txKind, backlogNow>>
       /\ OnlyBacklog

\* the outputs of the transaction v among the outputs os
OutputsOf(os, v) == {o \in os : o.VID = v}

\* purgeBacklog: under the mutex, every output stored before the horizon is
\* unreferenced and deleted
purgeBacklog ==
    LET horizon == backlogNow - BacklogTTL
        toDelete == {wOut \in DOMAIN outputs : outputs[wOut] < horizon}
    IN /\ references' = [v \in VIDs |-> references[v] - Cardinality(OutputsOf(toDelete, v))]
       /\ expected' = [v \in VIDs |-> expected[v] - Cardinality(OutputsOf(toDelete, v))]
       /\ outputs' = [wOut \in DOMAIN outputs \ toDelete |-> outputs[wOut]]
       /\ backlogStep' = [kind |-> "purged", why |-> "none", n |-> Cardinality(toDelete)]
       /\ UNCHANGED <<txKind, backlogNow, listener>>
       /\ OnlyBacklog

\* time passes
BacklogTick ==
    /\ backlogNow < MaxBacklogTime
    /\ backlogNow' = backlogNow + 1
    /\ backlogStep' = NoBacklogStep
    /\ UNCHANGED <<references, expected, txKind, outputs, listener>>
    /\ OnlyBacklog

BacklogIdle ==
    /\ txKind = [v \in VIDs |-> "good"]
    /\ outputs = EmptyMap
    /\ backlogNow = 0
    /\ listener = [l \in Listeners |-> ListenerIdle]
    /\ backlogStep = NoBacklogStep

\* New: an empty backlog, candidates of any kind
BacklogInit ==
    /\ txKind \in [VIDs -> TxKinds]
    /\ outputs = EmptyMap
    /\ backlogNow = 0
    /\ listener = [l \in Listeners |-> ListenerIdle]
    /\ backlogStep = NoBacklogStep

\* the wrapped transactions of the candidates, each held once by the DAG
\* unless it has no references
VtxBacklogInit ==
    /\ shape = [v \in VIDs |->
                  CASE txKind[v] \in {"virtual", "unreferenced"} -> "virtualTx"
                    [] txKind[v] = "deleted" -> "deleted"
                    [] OTHER -> "vertex"]
    /\ flags = [v \in VIDs |-> IF shape[v] = "vertex" THEN {"VertexDefined"} ELSE {}]
    /\ err = [v \in VIDs |-> IF txKind[v] = "bad" THEN "conflict" ELSE "nil"]
    /\ references = [v \in VIDs |-> IF txKind[v] = "unreferenced" THEN 0 ELSE 1]
    /\ mutex = [v \in VIDs |-> NoProc]
    /\ pc = [p \in Procs |-> Idle]
    /\ expected = references
    /\ last = NoCall

\* ------------------------------------------------------------------------
\* dag/utangle/utangle.go: heaviestBranchForLatestTimeSlot under ut.mutex
\* ------------------------------------------------------------------------

\* the goroutines that read the tangle and those that add to it
TangleReaders == {"r1", "r2"}

TangleWriters == {"w1", "w2"}

\* sync.RWMutex.RLock returns only while no writer has called Lock: a
\* writer that waits for the readers to leave keeps new readers out
RLockGranted == tangleMutex.writer = NoProc

RLocked == [tangleMutex EXCEPT !.readers = @ + 1]

RUnlocked == [tangleMutex EXCEPT !.readers = @ - 1]

\* heaviestBranchForLatestTimeSlot: ut.mutex.RLock()
heaviestBranchRLock(r) ==
    /\ readerPc[r] = "idle"
    /\ RLockGranted
    /\ tangleMutex' = RLocked
    /\ readerPc' = [readerPc EXCEPT ![r] = "heaviestBranch"]
    /\ UNCHANGED writerPc
    /\ OnlyTangle

\* LatestTimeSlot: ut.mutex.RLock(), called for the argument of
\* forEachBranchSorted with the read lock of the caller held, or on its own
LatestTimeSlotRLock(r) ==
    /\ readerPc[r] \in {"idle", "heaviestBranch"}
    /\ RLockGranted
    /\ tangleMutex' = RLocked
    /\ readerPc' = [readerPc EXCEPT ![r] =
                      IF @ = "idle" THEN "LatestTimeSlot" ELSE "heaviestBranch.LatestTimeSlot"]
    /\ UNCHANGED writerPc
    /\ OnlyTangle

\* LatestTimeSlot returns: the deferred ut.mutex.RUnlock()
LatestTimeSlotReturn(r) ==
    /\ readerPc[r] \in {"LatestTimeSlot", "heaviestBranch.LatestTimeSlot"}
    /\ tangleMutex' = RUnlocked
    /\ readerPc' = [readerPc EXCEPT ![r] =
                      IF @ = "LatestTimeSlot" THEN "done" ELSE "forEachBranchSorted"]
    /\ UNCHANGED writerPc
    /\ OnlyTangle

\* heaviestBranchForLatestTimeSlot returns after forEachBranchSorted: the
\* deferred ut.mutex.RUnlock()
heaviestBranchReturn(r) ==
    /\ readerPc[r] = "forEachBranchSorted"
    /\ tangleMutex' = RUnlocked
    /\ readerPc' = [readerPc EXCEPT ![r] = "done"]
    /\ UNCHANGED writerPc
    /\ OnlyTangle

\* a writer calls ut.mutex.Lock(): from now on RLock blocks, and the writer
\* waits for the read locks held to be released
tangleLock(w) ==
    /\ writerPc[w] = "idle"
    /\ tangleMutex.writer = NoProc
    /\ tangleMutex' = [tangleMutex EXCEPT !.writer = w]
    /\ writerPc' = [writerPc EXCEPT ![w] = "Lock"]
    /\ UNCHANGED readerPc
    /\ OnlyTangle

\* Lock returns when no read lock is held
tangleLocked(w) ==
    /\ writerPc[w] = "Lock"
    /\ tangleMutex.readers = 0
    /\ writerPc' = [writerPc EXCEPT ![w] = "locked"]
    /\ UNCHANGED <<tangleMutex, readerPc>>
    /\ OnlyTangle

\* the writer is done: ut.mutex.Unlock()
tangleUnlock(w) ==
    /\ writerPc[w] = "locked"
    /\ tangleMutex' = [tangleMutex EXCEPT !.writer = NoProc]
    /\ writerPc' = [writerPc EXCEPT ![w] = "done"]
    /\ UNCHANGED readerPc
    /\ OnlyTangle

\* the mutex is free, nobody has called yet
TangleInit ==
    /\ tangleMutex = [readers |-> 0, writer |-> NoProc]
    /\ readerPc = [r \in TangleReaders |-> "idle"]
    /\ writerPc = [w \in TangleWriters |-> "idle"]

\* ------------------------------------------------------------------------
\* core/poker/poker.go: Start, periodicLoop and WaitStop
\* ------------------------------------------------------------------------

\* the periodic cleanups of a run of the model
MaxLoops == 2

\* the goroutines that call WaitStop
Stoppers == {"s1", "s2"}

NotReturned == [pc |-> "idle", registered |-> FALSE, stopped |-> FALSE]

\* the first goroutine of Start: stopWG.Add(1), then Run
runAdd ==
    /\ runPc = "go"
    /\ stopWG' = stopWG + 1
    /\ runPc' = "Run"
    /\ UNCHANGED <<ctxDone, loopPc, loops, queueStopped, waitStop>>
    /\ OnlyStart

\* Run returns when the queue is stopped
runReturn ==
    /\ runPc = "Run"
    /\ queueStopped
    /\ runPc' = "returned"
    /\ UNCHANGED <<stopWG, ctxDone, loopPc, loops, queueStopped, waitStop>>
    /\ OnlyStart

\* the owner of the context cancels it
cancel ==
    /\ ~ctxDone
    /\ ctxDone' = TRUE
    /\ UNCHANGED <<stopWG, runPc, loopPc, loops, queueStopped, waitStop>>
    /\ OnlyStart

\* periodicLoop, case <-time.After(loopPeriod): the cleanup command is pushed
periodicLoopTimeAfter ==
    /\ loopPc = "select"
    /\ loops < MaxLoops
    /\ loops' = loops + 1
    /\ UNCHANGED <<stopWG, ctxDone, runPc, loopPc, queueStopped, waitStop>>
    /\ OnlyStart

\* periodicLoop, case <-ctx.Done(): c.Stop()
periodicLoopCtxDone ==
    /\ loopPc = "select"
    /\ ctxDone
    /\ queueStopped' = TRUE
    /\ loopPc' = "Done"
    /\ UNCHANGED <<stopWG, ctxDone, runPc, loops, waitStop>>
    /\ OnlyStart

\* periodicLoop after Stop: c.stopWG.Done() and return; Done on a counter
\* of 0 panics with a negative counter
periodicLoopDone ==
    /\ loopPc = "Done"
    /\ stopWG' = stopWG - 1
    /\ loopPc' = IF stopWG - 1 < 0 THEN "panic" ELSE "returned"
    /\ UNCHANGED <<ctxDone, runPc, loops, queueStopped, waitStop>>
    /\ OnlyStart

\* WaitStop: stopWG.Wait() returns when the counter is 0
WaitStop(s) ==
    /\ waitStop[s].pc = "idle"
    /\ stopWG = 0
    /\ waitStop' = [waitStop EXCEPT ![s] =
                      [pc |-> "returned", registered |-> runPc # "go", stopped |-> queueStopped]]
    /\ UNCHANGED <<stopWG, ctxDone, runPc, loopPc, loops, queueStopped>>
    /\ OnlyStart

\* Start has returned: both goroutines are launched, none has run yet
StartInit ==
    /\ stopWG = 0
    /\ ctxDone = FALSE
    /\ runPc = "go"
    /\ loopPc = "select"
    /\ loops = 0
    /\ queueStopped = FALSE
    /\ waitStop = [s \in Stoppers |-> NotReturned]

\* ------------------------------------------------------------------------
\* Specification of the wrapped transaction
\* ------------------------------------------------------------------------

VtxInit ==
    /\ shape = [v \in VIDs |-> "none"]
    /\ flags = [v \in VIDs |-> {}]
    /\ err = [v \in VIDs |-> "nil"]
    /\ references = [v \in VIDs |-> 0]
    /\ mutex = [v \in VIDs |-> NoProc]
    /\ pc = [p \in Procs |-> Idle]
    /\ expected = [v \in VIDs |-> 0]
    /\ last = NoCall

Init == VtxInit /\ PokerInit /\ TipsIdle /\ PrefIdle /\ SeqIdle /\ DupInit /\ SyncIdle /\ SolidInit /\ ScoreIdle /\ RecIdle /\ StoreInit /\ AccessIdle /\ PeersIdle /\ GlobalInit /\ ConsumedInit /\ TraverseIdle /\ WaitAppendInit /\ BacklogIdle /\ TangleInit /\ StartInit

Next ==
    \/ \E v \in VIDs : WrapTxID(v)
    \/ \E v \in VIDs : Wrap(v)
    \/ \E p \in Procs, v \in VIDs : SetTxStatusGood(p, v)
    \/ \E p \in Procs, v \in VIDs, r \in Reasons : SetTxStatusBad(p, v, r)
    \/ \E p \in Procs, v \in VIDs, r \in Reasons : SetTxStatusBadNoLock(p, v, r)
    \/ \E p \in Procs, v \in VIDs : SetTxStatusGoodNoLock(p, v)
    \/ \E p \in Procs, v \in VIDs : ReferenceRead(p, v)
    \/ \E p \in Procs : ReferenceWrite(p)
    \/ \E p \in Procs, v \in VIDs : UnReferenceRead(p, v)
    \/ \E p \in Procs : UnReferenceWrite(p)
    \/ \E p \in Procs, v \in VIDs : MarkDeleted(p, v)

Spec == Init /\ [][Next]_vars

\* ------------------------------------------------------------------------
\* Specification of the poker
\* ------------------------------------------------------------------------

PokerSpecInit == VtxInit /\ PokerInit /\ TipsIdle /\ PrefIdle /\ SeqIdle /\ DupInit /\ SyncIdle /\ SolidInit /\ ScoreIdle /\ RecIdle /\ StoreInit /\ AccessIdle /\ PeersIdle /\ GlobalInit /\ ConsumedInit /\ TraverseIdle /\ WaitAppendInit /\ BacklogIdle /\ TangleInit /\ StartInit

PokerNext ==
    \/ \E d \in ClockSteps : Tick(d)
    \/ \E me \in VIDs, waitingFor \in VIDs : PokeMe(me, waitingFor)
    \/ \E vid \in VIDs : PokeAllWith(vid)
    \/ periodicLoop
    \/ consumeAdd
    \/ consumePokeAll
    \/ consumePeriodicCleanup

SpecPoker == PokerSpecInit /\ [][PokerNext]_vars

\* ------------------------------------------------------------------------
\* Specification of the sequencer tips pool
\* ------------------------------------------------------------------------

TipsSpecInit == VtxAttachedInit /\ PokerInit /\ TipsInit /\ PrefIdle /\ SeqIdle /\ DupInit /\ SyncIdle /\ SolidInit /\ ScoreIdle /\ RecIdle /\ StoreInit /\ AccessIdle /\ PeersIdle /\ GlobalInit /\ ConsumedInit /\ TraverseIdle /\ WaitAppendInit /\ BacklogIdle /\ TangleInit /\ StartInit

TipsNext ==
    \/ \E v \in VIDs : Consume(v)
    \/ \E v \in VIDs : Reference(v)
    \/ \E v \in VIDs : UnReference(v)

SpecTips == TipsSpecInit /\ [][TipsNext]_vars

\* ------------------------------------------------------------------------
\* Specification of the milestone preference
\* ------------------------------------------------------------------------

PrefSpecInit == VtxInit /\ PokerInit /\ TipsIdle /\ PrefInit /\ SeqIdle /\ DupInit /\ SyncIdle /\ SolidInit /\ ScoreIdle /\ RecIdle /\ StoreInit /\ AccessIdle /\ PeersIdle /\ GlobalInit /\ ConsumedInit /\ TraverseIdle /\ WaitAppendInit /\ BacklogIdle /\ TangleInit /\ StartInit

PrefNext == ComparePairs

SpecPref == PrefSpecInit /\ [][PrefNext]_vars

\* ------------------------------------------------------------------------
\* Specification of the sequencer
\* ------------------------------------------------------------------------

SeqSpecInit == VtxInit /\ PokerInit /\ TipsIdle /\ PrefIdle /\ SeqInit /\ DupInit /\ SyncIdle /\ SolidInit /\ ScoreIdle /\ RecIdle /\ StoreInit /\ AccessIdle /\ PeersIdle /\ GlobalInit /\ ConsumedInit /\ TraverseIdle /\ WaitAppendInit /\ BacklogIdle /\ TangleInit /\ StartInit

SeqNext ==
    \/ SeqTick
    \/ \E result \in {"noProposal", "attachError", "attached"} : doSequencerStep(result)
    \/ TipPoolStores
    \/ waitMilestoneInTippool
    \/ Stop

SpecSeq == SeqSpecInit /\ [][SeqNext]_vars

\* ------------------------------------------------------------------------
\* Specification of the primary input consumer
\* ------------------------------------------------------------------------

DupSpecInit == VtxInit /\ PokerInit /\ TipsIdle /\ PrefIdle /\ SeqIdle /\ DupInit /\ SyncIdle /\ SolidInit /\ ScoreIdle /\ RecIdle /\ StoreInit /\ AccessIdle /\ PeersIdle /\ GlobalInit /\ ConsumedInit /\ TraverseIdle /\ WaitAppendInit /\ BacklogIdle /\ TangleInit /\ StartInit

DupNext ==
    \/ \E tx \in TxSet : TransactionIn(tx)
    \/ consume
    \/ AppendVertex

SpecDup == DupSpecInit /\ [][DupNext]_vars

\* ------------------------------------------------------------------------
\* Specification of the sync manager. syncManagerLoop calls checkSync every
\* checkSyncEvery and the wall clock advances: both are weakly fair.
\* ------------------------------------------------------------------------

SyncSpecInit == VtxInit /\ PokerInit /\ TipsIdle /\ PrefIdle /\ SeqIdle /\ DupInit /\ SyncInit /\ SolidInit /\ ScoreIdle /\ RecIdle /\ StoreInit /\ AccessIdle /\ PeersIdle /\ GlobalInit /\ ConsumedInit /\ TraverseIdle /\ WaitAppendInit /\ BacklogIdle /\ TangleInit /\ StartInit

SyncNext ==
    \/ SyncTick
    \/ CommitBranch
    \/ checkSync
    \/ \E txSlot \in 0..(SlotNow + 1) : CallIgnoreFutureTxID(txSlot)

SpecSync == SyncSpecInit /\ [][SyncNext]_vars /\ WF_vars(SyncTick) /\ WF_vars(checkSync)

\* ------------------------------------------------------------------------
\* Specification of the attachers of dependent transactions. The
\* transactions are submitted in any order. The goroutines of the attachers
\* and of the poker are scheduled fairly; a Push on the queue of the poker is
\* strongly fair, it goes through whenever the consumer has made room. The
\* clock may pass the ttl of the waiting lists, so that the sweep drops them.
\* ------------------------------------------------------------------------

SolidSpecInit == VtxInit /\ PokerInit /\ TipsIdle /\ PrefIdle /\ SeqIdle /\ DupInit /\ SyncIdle /\ SolidInit /\ ScoreIdle /\ RecIdle /\ StoreInit /\ AccessIdle /\ PeersIdle /\ GlobalInit /\ ConsumedInit /\ TraverseIdle /\ WaitAppendInit /\ BacklogIdle /\ TangleInit /\ StartInit

SolidNext ==
    \/ \E t \in SolidTxs : TransactionInSolid(t)
    \/ \E t \in SolidTxs : FetchMissingDependencies(t)
    \/ \E t \in SolidTxs : PokeMeSuspend(t)
    \/ \E t \in SolidTxs : Resume(t)
    \/ \E t \in SolidTxs : TimeoutWake(t)
    \/ consumeAddSolid
    \/ consumePokeAllSolid
    \/ Tick(TtlWanted + 1)
    \/ periodicLoop
    \/ consumePeriodicCleanup

SolidFairness ==
    /\ \A t \in SolidTxs :
          /\ SF_vars(FetchMissingDependencies(t))
          /\ SF_vars(PokeMeSuspend(t))
          /\ WF_vars(Resume(t))
          /\ WF_vars(TimeoutWake(t))
    /\ WF_vars(consumeAddSolid)
    /\ WF_vars(consumePokeAllSolid)
    /\ WF_vars(consumePeriodicCleanup)

SpecSolid == SolidSpecInit /\ [][SolidNext]_vars /\ SolidFairness

\* ------------------------------------------------------------------------
\* Specifications of the coverage threshold and of the inclusion score
\* ------------------------------------------------------------------------

RootSpecInit == VtxInit /\ PokerInit /\ TipsIdle /\ PrefIdle /\ SeqIdle /\ DupInit /\ SyncIdle /\ SolidInit /\ RootInit /\ RecIdle /\ StoreInit /\ AccessIdle /\ PeersIdle /\ GlobalInit /\ ConsumedInit /\ TraverseIdle /\ WaitAppendInit /\ BacklogIdle /\ TangleInit /\ StartInit

SpecRoot == RootSpecInit /\ [][CallIsCoverageAboveThreshold]_vars

ScoreSpecInit == VtxInit /\ PokerInit /\ TipsIdle /\ PrefIdle /\ SeqIdle /\ DupInit /\ SyncIdle /\ SolidInit /\ ScoreInit /\ RecIdle /\ StoreInit /\ AccessIdle /\ PeersIdle /\ GlobalInit /\ ConsumedInit /\ TraverseIdle /\ WaitAppendInit /\ BacklogIdle /\ TangleInit /\ StartInit

SpecScore == ScoreSpecInit /\ [][CallCalcTxInclusionScore]_vars

\* ------------------------------------------------------------------------
\* Specification of the encoding of a root record
\* ------------------------------------------------------------------------

RecSpecInit == VtxInit /\ PokerInit /\ TipsIdle /\ PrefIdle /\ SeqIdle /\ DupInit /\ SyncIdle /\ SolidInit /\ ScoreIdle /\ RecInit /\ StoreInit /\ AccessIdle /\ PeersIdle /\ GlobalInit /\ ConsumedInit /\ TraverseIdle /\ WaitAppendInit /\ BacklogIdle /\ TangleInit /\ StartInit

RecNext ==
    \/ CallBytes
    \/ CallRootRecordFromBytes

SpecRec == RecSpecInit /\ [][RecNext]_vars

\* ------------------------------------------------------------------------
\* Specification of the root records in the state store
\* ------------------------------------------------------------------------

StoreSpecInit == VtxInit /\ PokerInit /\ TipsIdle /\ PrefIdle /\ SeqIdle /\ DupInit /\ SyncIdle /\ SolidInit /\ ScoreIdle /\ RecIdle /\ StoreInit /\ AccessIdle /\ PeersIdle /\ GlobalInit /\ ConsumedInit /\ TraverseIdle /\ WaitAppendInit /\ BacklogIdle /\ TangleInit /\ StartInit

StoreNext ==
    \/ \E txid \in BranchIDs, cov \in CoverageOptions, pred \in BranchIDs \cup {NoBranch} :
          putRoot(txid, [LedgerCoverage |-> cov, Predecessor |-> pred])
    \/ \E nBack \in 0..MaxBack, first \in BranchIDs :
          FetchHeaviestBranchChainNSlotsBack(nBack, first)

SpecStore == StoreSpecInit /\ [][StoreNext]_vars

\* ------------------------------------------------------------------------
\* Specification of the access to a wrapped transaction by its shape
\* ------------------------------------------------------------------------

AccessSpecInit == VtxInit /\ PokerInit /\ TipsIdle /\ PrefIdle /\ SeqIdle /\ DupInit /\ SyncIdle /\ SolidInit /\ ScoreIdle /\ RecIdle /\ StoreInit /\ AccessInit /\ PeersIdle /\ GlobalInit /\ ConsumedInit /\ TraverseIdle /\ WaitAppendInit /\ BacklogIdle /\ TangleInit /\ StartInit

AccessNext ==
    \/ \E v \in VIDs : WrapTxID(v)
    \/ \E v \in VIDs : Wrap(v)
    \/ \E p \in Procs, v \in VIDs : MarkDeleted(p, v)
    \/ \E v \in VIDs, idx \in OutputIndices : OutputAt(v, idx)
    \/ \E v \in VIDs, idx \in OutputIndices : HasOutputAt(v, idx)
    \/ \E v \in VIDs, opt \in UnwrapOptions : Unwrap(v, opt)
    \/ \E v \in VIDs : CallBaselineBranch(v)
    \/ \E v \in VIDs : ConvertToVirtualTx(v)
    \/ \E v, tx \in VIDs : ConvertVirtualTxToVertexNoLock(v, tx)
    \/ \E v, b \in VIDs : SetBaselineBranch(v, b)

SpecAccess == AccessSpecInit /\ [][AccessNext]_vars

\* ------------------------------------------------------------------------
\* Specification of the shapes of a wrapped transaction
\* ------------------------------------------------------------------------

ShapeSpecInit == VtxInit /\ PokerInit /\ TipsIdle /\ PrefIdle /\ SeqIdle /\ DupInit /\ SyncIdle /\ SolidInit /\ ScoreIdle /\ RecIdle /\ StoreInit /\ AccessIdle /\ PeersIdle /\ GlobalInit /\ ConsumedInit /\ TraverseIdle /\ WaitAppendInit /\ BacklogIdle /\ TangleInit /\ StartInit

\* the goroutine that attaches the transactions
ShapeProc == "g1"

ShapeNext ==
    \/ \E v \in VIDs : WrapTxID(v)
    \/ \E v \in VIDs : Wrap(v)
    \/ \E v \in VIDs : SetTxStatusBad(ShapeProc, v, "conflict")
    \/ \E v \in VIDs : ReferenceRead(ShapeProc, v)
    \/ ReferenceWrite(ShapeProc)
    \/ \E v \in VIDs : MarkDeleted(ShapeProc, v)
    \/ \E v \in VIDs : ConvertToVirtualTx(v)
    \/ \E v, tx \in VIDs : ConvertVirtualTxToVertexNoLock(v, tx)
    \/ AttachConsumer(0, "t1", "none")

SpecShape == ShapeSpecInit /\ [][ShapeNext]_vars

\* ------------------------------------------------------------------------
\* Specification of the peers and the gossip stream handler
\* ------------------------------------------------------------------------

PeersSpecInit == VtxInit /\ PokerInit /\ TipsIdle /\ PrefIdle /\ SeqIdle /\ DupInit /\ SyncIdle /\ SolidInit /\ ScoreIdle /\ RecIdle /\ StoreInit /\ AccessIdle /\ PeersInit /\ GlobalInit /\ ConsumedInit /\ TraverseIdle /\ WaitAppendInit /\ BacklogIdle /\ TangleInit /\ StartInit

PeersNext ==
    \/ PeerTick
    \/ \E id \in PeerIDs, static \in BOOLEAN : addPeer(id, static)
    \/ cleanBlacklist
    \/ \E h \in Streams, id \in PeerIDs : gossipCheckBlacklist(h, id)
    \/ \E h \in Streams : gossipGetPeer(h)
    \/ \E h \in Streams, e \in StreamErrors : gossipRead(h, e)

SpecPeers == PeersSpecInit /\ [][PeersNext]_vars

\* ------------------------------------------------------------------------
\* Specification of the work processes and the wait for their stop. The
\* goroutine of the wait runs and the clock goes on.
\* ------------------------------------------------------------------------

GlobalSpecInit == VtxInit /\ PokerInit /\ TipsIdle /\ PrefIdle /\ SeqIdle /\ DupInit /\ SyncIdle /\ SolidInit /\ ScoreIdle /\ RecIdle /\ StoreInit /\ AccessIdle /\ PeersIdle /\ GlobalInit /\ ConsumedInit /\ TraverseIdle /\ WaitAppendInit /\ BacklogIdle /\ TangleInit /\ StartInit

GlobalNext ==
    \/ \E name \in WorkProcesses : MarkWorkProcessStarted(name)
    \/ \E name \in WorkProcesses : MarkWorkProcessStopped(name)
    \/ GlobalTick
    \/ \E timeout \in 1..MaxTimeout : MustWaitAllWorkProcessesStop(timeout)
    \/ waitCheck
    \/ waitWake

SpecGlobal ==
    GlobalSpecInit /\ [][GlobalNext]_vars
        /\ WF_vars(GlobalTick) /\ WF_vars(waitCheck) /\ WF_vars(waitWake)

\* ------------------------------------------------------------------------
\* Specification of the consumers of the outputs of a wrapped transaction
\* ------------------------------------------------------------------------

ConsumedSpecInit == VtxInit /\ PokerInit /\ TipsIdle /\ PrefIdle /\ SeqIdle /\ DupInit /\ SyncIdle /\ SolidInit /\ ScoreIdle /\ RecIdle /\ StoreInit /\ AccessIdle /\ PeersIdle /\ GlobalInit /\ ConsumedInit /\ TraverseIdle /\ WaitAppendInit /\ BacklogIdle /\ TangleInit /\ StartInit

ConsumedNext ==
    \E outputIndex \in ConsumedIndices, consumer \in Consumers, check \in ConflictChecks :
        AttachConsumer(outputIndex, consumer, check)

SpecConsumed == ConsumedSpecInit /\ [][ConsumedNext]_vars

\* ------------------------------------------------------------------------
\* Specification of the depth-first traverse of a past cone
\* ------------------------------------------------------------------------

TraverseSpecInit == VtxInit /\ PokerInit /\ TipsIdle /\ PrefIdle /\ SeqIdle /\ DupInit /\ SyncIdle /\ SolidInit /\ ScoreIdle /\ RecIdle /\ StoreInit /\ AccessIdle /\ PeersIdle /\ GlobalInit /\ ConsumedInit /\ TraverseInit /\ WaitAppendInit /\ BacklogIdle /\ TangleInit /\ StartInit

SpecTraverse == TraverseSpecInit /\ [][TraversePastConeDepthFirst]_vars

\* ------------------------------------------------------------------------
\* Specification of TransactionInWaitAppend
\* ------------------------------------------------------------------------

WaitAppendSpecInit == VtxInit /\ PokerInit /\ TipsIdle /\ PrefIdle /\ SeqIdle /\ DupInit /\ SyncIdle /\ SolidInit /\ ScoreIdle /\ RecIdle /\ StoreInit /\ AccessIdle /\ PeersIdle /\ GlobalInit /\ ConsumedInit /\ TraverseIdle /\ WaitAppendInit /\ BacklogIdle /\ TangleInit /\ StartInit

WaitAppendNext ==
    \/ \E running, parsed \in BOOLEAN : TransactionInReturnTx(running, parsed)
    \/ \E c \in Callbacks : FinishEvent(c)
    \/ \E c \in Callbacks : callbackLock(c)
    \/ \E c \in Callbacks : receive(c)
    \/ \E c \in Callbacks : callbackUnlock(c)
    \/ timeAfter
    \/ deferLock
    \/ deferClose
    \/ deferUnlock

\* the caller and the callbacks are goroutines that run when they can; the
\* timer fires; a finish event need not come
WaitAppendFairness ==
    /\ WF_vars(\E running, parsed \in BOOLEAN : TransactionInReturnTx(running, parsed))
    /\ \A c \in Callbacks : WF_vars(callbackLock(c))
    /\ \A c \in Callbacks : WF_vars(receive(c))
    /\ \A c \in Callbacks : WF_vars(callbackUnlock(c))
    /\ WF_vars(timeAfter)
    /\ WF_vars(deferLock)
    /\ WF_vars(deferClose)
    /\ WF_vars(deferUnlock)

SpecWaitAppend == WaitAppendSpecInit /\ [][WaitAppendNext]_vars /\ WaitAppendFairness

\* ------------------------------------------------------------------------
\* Specification of the input backlog
\* ------------------------------------------------------------------------

BacklogSpecInit == BacklogInit /\ VtxBacklogInit /\ PokerInit /\ TipsIdle /\ PrefIdle /\ SeqIdle /\ DupInit /\ SyncIdle /\ SolidInit /\ ScoreIdle /\ RecIdle /\ StoreInit /\ AccessIdle /\ PeersIdle /\ GlobalInit /\ ConsumedInit /\ TraverseIdle /\ WaitAppendInit /\ TangleInit /\ StartInit

BacklogNext ==
    \/ \E l \in Listeners, wOut \in WrappedOutputs : listenerReference(l, wOut)
    \/ \E l \in Listeners : listenerCheck(l)
    \/ \E l \in Listeners : listenerStore(l)
    \/ purgeBacklog
    \/ BacklogTick

SpecBacklog == BacklogSpecInit /\ [][BacklogNext]_vars

\* ------------------------------------------------------------------------
\* Specification of the readers and writers of the tangle
\* ------------------------------------------------------------------------

TangleSpecInit == VtxInit /\ PokerInit /\ TipsIdle /\ PrefIdle /\ SeqIdle /\ DupInit /\ SyncIdle /\ SolidInit /\ ScoreIdle /\ RecIdle /\ StoreInit /\ AccessIdle /\ PeersIdle /\ GlobalInit /\ ConsumedInit /\ TraverseIdle /\ WaitAppendInit /\ BacklogIdle /\ TangleInit /\ StartInit

TangleNext ==
    \/ \E r \in TangleReaders : heaviestBranchRLock(r)
    \/ \E r \in TangleReaders : LatestTimeSlotRLock(r)
    \/ \E r \in TangleReaders : LatestTimeSlotReturn(r)
    \/ \E r \in TangleReaders : heaviestBranchReturn(r)
    \/ \E w \in TangleWriters : tangleLock(w)
    \/ \E w \in TangleWriters : tangleLocked(w)
    \/ \E w \in TangleWriters : tangleUnlock(w)

\* a goroutine inside a call goes on when it can; whether a call is made at
\* all is not required
TangleFairness ==
    /\ \A r \in TangleReaders :
          /\ WF_vars(readerPc[r] = "heaviestBranch" /\ LatestTimeSlotRLock(r))
          /\ WF_vars(LatestTimeSlotReturn(r))
          /\ WF_vars(heaviestBranchReturn(r))
    /\ \A w \in TangleWriters : WF_vars(tangleLocked(w)) /\ WF_vars(tangleUnlock(w))

SpecTangle == TangleSpecInit /\ [][TangleNext]_vars /\ TangleFairness

\* ------------------------------------------------------------------------
\* Specification of the start and the stop of the poker
\* ------------------------------------------------------------------------

StartSpecInit == VtxInit /\ PokerInit /\ TipsIdle /\ PrefIdle /\ SeqIdle /\ DupInit /\ SyncIdle /\ SolidInit /\ ScoreIdle /\ RecIdle /\ StoreInit /\ AccessIdle /\ PeersIdle /\ GlobalInit /\ ConsumedInit /\ TraverseIdle /\ WaitAppendInit /\ BacklogIdle /\ TangleInit /\ StartInit

StartNext ==
    \/ runAdd
    \/ runReturn
    \/ cancel
    \/ periodicLoopTimeAfter
    \/ periodicLoopCtxDone
    \/ periodicLoopDone
    \/ \E s \in Stoppers : WaitStop(s)

SpecStart == StartSpecInit /\ [][StartNext]_vars

\* ------------------------------------------------------------------------
\* Properties of the wrapped transaction
\* ------------------------------------------------------------------------

C2_ReferenceAtomic ==
    /\ [](\A v \in VIDs : mutex[v] = NoProc => references[v] = expected[v])
    /\ [](\A v \in VIDs : last = Returned("Reference", v, "false") => references[v] = 0)
    /\ [][\A p \in Procs :
            (pc[p].op = "Reference" /\ pc'[p] = Idle)
                => /\ references[pc[p].vid] > 0
                   /\ references'[pc[p].vid] = references[pc[p].vid] + 1
                   /\ last' = Returned("Reference", pc[p].vid, "true")]_vars

\* two successful Reference calls on one vertex, while another goroutine is
\* inside UnReference of another vertex
C2_Witness ==
    \E v \in VIDs, p \in Procs :
        /\ references[v] = 3
        /\ mutex[v] = NoProc
        /\ last = Returned("Reference", v, "true")
        /\ pc[p].op = "UnReference"

\* C3: a WrappedTx whose reference count is 0 has the Deleted shape.
C3_ZeroRefsIsDeleted ==
    \A v \in VIDs : (shape[v] # "none" /\ references[v] = 0) => shape[v] = "deleted"

Consumes(kind) == queue # <<>> /\ Head(queue).cmd = kind /\ queue' = Tail(queue)

NoDup(seq) == \A i, j \in 1..Len(seq) : seq[i] = seq[j] => i = j

\* C5 as claimed: whenever PokeAll(wanted) is processed, every waiter whose
\* Wait on wanted was processed since the previous PokeAll(wanted) is poked,
\* whatever was processed in between, PeriodicSweep included.
C5_WaitSeesPoke ==
    [][Consumes("PokeAll")
          => pending[Head(queue).wanted] \subseteq Range(poked'.who)]_vars

\* C5 amended: whenever PokeAll(wanted) is processed, every waiter whose Wait
\* on wanted was processed since the previous PokeAll(wanted) is poked with
\* wanted, provided no PeriodicSweep was processed in between later than
\* ttlWanted (one minute) after the latest Wait on wanted processed before it.
C5_WaitSeesPokeWithinTtl ==
    [][Consumes("PokeAll")
          => /\ live[Head(queue).wanted] \subseteq Range(poked'.who)
             /\ poked'.wanted = Head(queue).wanted]_vars

\* a PokeAll that poked a waiter whose list had been kept by a sweep
C5_Witness ==
    /\ poked.cmd = "PokeAll"
    /\ poked.who # <<>>
    /\ poked.afterSweep

\* C6: PokeAll(wanted) pokes every distinct waiter recorded for wanted exactly
\* once, with wanted, and drops the list; a PokeAll on a wanted without a list
\* pokes nobody. A list never holds a waiter twice and holds exactly the
\* waiters of the Waits processed since it was dropped last.
C6_PokeAllOnce ==
    /\ [](\A w \in VIDs :
            /\ NoDup(Lookup(m, w).waiting)
            /\ Range(Lookup(m, w).waiting) = live[w])
    /\ [][Consumes("PokeAll")
            => LET wanted == Head(queue).wanted IN
               /\ poked'.cmd = "PokeAll"
               /\ poked'.wanted = wanted
               /\ NoDup(poked'.who)
               /\ Range(poked'.who) = live[wanted]
               /\ wanted \notin DOMAIN m'
               /\ (wanted \notin DOMAIN m => poked'.who = <<>>)]_vars

\* a PokeAll that poked two distinct waiters and dropped their list
C6_Witness ==
    /\ poked.cmd = "PokeAll"
    /\ Len(poked.who) = 2
    /\ poked.wanted \notin DOMAIN m

\* the effect of command c on the waiting map
EffectOf(c) ==
    IF c.cmd = "Add" THEN addCmd(m, c.wanted, c.who, now)
    ELSE IF c.cmd = "PokeAll" THEN pokeAllCmd(m, c.wanted)
    ELSE periodicCleanup(m, now)

\* C7: the queue changes only by a push at its end or by the consumer taking
\* its head, so commands are consumed in the order they were enqueued, and
\* the waiting map changes only in a step of the consumer, by the effect of
\* the one command it takes.
C7_SingleConsumerFifo ==
    [][/\ queue' # queue
            => \/ /\ Len(queue') = Len(queue) + 1
                  /\ SubSeq(queue', 1, Len(queue)) = queue
                  /\ m' = m /\ poked' = poked
               \/ queue # <<>> /\ queue' = Tail(queue)
       /\ (m' # m \/ poked' # poked)
            => /\ queue # <<>>
               /\ queue' = Tail(queue)
               /\ m' = EffectOf(Head(queue))]_vars

\* the queue holds a Wait and, behind it, a PokeAll while a list is waiting
C7_Witness ==
    /\ Len(queue) = 2
    /\ queue[1].cmd = "Add"
    /\ queue[2].cmd = "PokeAll"
    /\ m # EmptyMap

\* C8: a sweep removes exactly the lists with now after keepUntil and leaves
\* every other list as it is; a list's keepUntil is one minute after the last
\* Wait on its wanted, so a list is swept only if more than a minute has
\* passed since the last Wait on its wanted.
C8_SweepExact ==
    /\ [](\A w \in DOMAIN m : m[w].keepUntil = lastWaitAt[w] + TtlWanted)
    /\ [][Consumes("PeriodicCleanup")
            => /\ DOMAIN m' = {w \in DOMAIN m : ~(now > m[w].keepUntil)}
               /\ \A w \in DOMAIN m' : m'[w] = m[w]
               /\ \A w \in DOMAIN m \ DOMAIN m' : now > lastWaitAt[w] + TtlWanted]_vars

\* one list was swept while another, refreshed later, was kept
C8_Witness ==
    \E w1, w2 \in VIDs :
        /\ w1 # w2
        /\ w1 \in DOMAIN m
        /\ survived[w1]
        /\ w2 \notin DOMAIN m
        /\ pending[w2] # {}
        /\ poked = NoPoke

\* ------------------------------------------------------------------------
\* Properties of the sequencer tips pool
\* ------------------------------------------------------------------------

\* the tip stored for chain id c in the map mm, NilVID if there is none
TipOf(mm, c) == IF c \in DOMAIN mm THEN mm[c].vid ELSE NilVID

\* m has the newer, the older, the same timestamp as t
Newer(mm, t) == Before(VidTimestamp(t), VidTimestamp(mm))

Older(mm, t) == Before(VidTimestamp(mm), VidTimestamp(t))

\* m wins the tie-break against t: the higher coverage, on equal coverage
\* the later timestamp, then the byte-wise larger transaction id
WinsTieBreak(mm, t) ==
    \/ msData[mm].cov > msData[t].cov
    \/ /\ msData[mm].cov = msData[t].cov
       /\ \/ Newer(mm, t)
          \/ /\ VidTimestamp(mm) = VidTimestamp(t)
             /\ bytesCompare(msData[mm].ID, msData[t].ID) = 1

\* what Consume(mm) does to the tip of the chain c of mm
StoresOrReplaces(mm, c) ==
    /\ TipOf(latestMilestones, c) = NilVID => TipOf(latestMilestones', c) = mm
    /\ TipOf(latestMilestones, c) \notin {NilVID, mm} =>
         LET t == TipOf(latestMilestones, c)
         IN /\ TipOf(latestMilestones', c) \in {mm, t}
            /\ TipOf(latestMilestones', c) = mm <=>
                  \/ Newer(mm, t)
                  \/ VidTimestamp(mm) = VidTimestamp(t) /\ WinsTieBreak(mm, t)
            /\ Older(mm, t) => TipOf(latestMilestones', c) = t
    /\ \A d \in Chains \ {c} : TipOf(latestMilestones', d) = TipOf(latestMilestones, d)

\* C9: Consume(m) for chain id c: if no tip is stored for c, m is stored; if
\* a different tip t is stored, m replaces t iff m is newer, or the
\* timestamps are equal and m wins the tie-break; an older m never replaces.
C9_ConsumeStoresOrReplaces ==
    [][consumed'.vid # NilVID =>
         StoresOrReplaces(consumed'.vid, msData[consumed'.vid].seqID)]_vars

\* C9 with its condition: the rule holds when Reference on m succeeds (the
\* reference counter of m is not 0); when it fails the pool is unchanged.
C9_ConsumeStoresOrReplacesIfReferenced ==
    [][consumed'.vid # NilVID =>
         IF references[consumed'.vid] # 0
           THEN StoresOrReplaces(consumed'.vid, msData[consumed'.vid].seqID)
           ELSE latestMilestones' = latestMilestones]_vars

\* a tip was replaced by a milestone of the same timestamp on the tie-break
C9_Witness ==
    /\ consumed.stored
    /\ consumed.prev # NilVID
    /\ VidTimestamp(consumed.vid) = VidTimestamp(consumed.prev)
    /\ TipOf(latestMilestones, msData[consumed.vid].seqID) = consumed.vid

\* ------------------------------------------------------------------------
\* Properties of the milestone preference
\* ------------------------------------------------------------------------

\* the preference as a lexicographic comparison of
\* <<coverage, slot, tick, bytes of the id>>
LexGreater(a, b) ==
    \E k \in 1..Len(a) :
        /\ a[k] > b[k]
        /\ \A l \in 1..(k - 1) : a[l] = b[l]

PrefKey(x) ==
    <<x.cov, Timestamp(x.txid)[1], Timestamp(x.txid)[2]>> \o x.txid

Compared == prefOut # NotCompared

WithTxIDs == \A i \in PrefIdx : prefIn[i].txid # NilTxID

\* C10: IsPreferredBase prefers the higher coverage, then the later
\* timestamp, then the byte-wise larger transaction id, and it is a strict
\* total order on milestones with distinct transaction ids: irreflexive,
\* asymmetric, transitive, and of two distinct ids exactly one is preferred.
C10_PreferenceIsStrictTotalOrder ==
    (Compared /\ WithTxIDs) =>
        /\ \A i, j \in PrefIdx :
               prefOut[i][j] <=> LexGreater(PrefKey(prefIn[i]), PrefKey(prefIn[j]))
        /\ \A i \in PrefIdx : ~prefOut[i][i]
        /\ \A i, j \in PrefIdx : prefOut[i][j] => ~prefOut[j][i]
        /\ \A i, j, k \in PrefIdx :
               (prefOut[i][j] /\ prefOut[j][k]) => prefOut[i][k]
        /\ \A i, j \in PrefIdx :
               prefIn[i].txid # prefIn[j].txid =>
                   (prefOut[i][j] /\ ~prefOut[j][i]) \/ (prefOut[j][i] /\ ~prefOut[i][j])

\* three milestones of one coverage: the first two of one timestamp decided
\* by the bytes of the ids, the third one older
C10_Witness ==
    /\ Compared
    /\ WithTxIDs
    /\ prefIn[1].cov = prefIn[2].cov /\ prefIn[2].cov = prefIn[3].cov
    /\ prefIn[1].txid # prefIn[2].txid
    /\ Timestamp(prefIn[1].txid) = Timestamp(prefIn[2].txid)
    /\ Before(Timestamp(prefIn[3].txid), Timestamp(prefIn[2].txid))
    /\ prefOut[1][2] /\ prefOut[2][3] /\ prefOut[1][3]

\* ------------------------------------------------------------------------
\* References held by the tips pool
\* ------------------------------------------------------------------------

\* the number of entries of the pool that point to v
PoolRefs(v) == Cardinality({c \in DOMAIN latestMilestones : latestMilestones[c].vid = v})

\* every counter is the references of the other holders plus those of the pool
PoolAccounting == \A v \in VIDs : references[v] = holders[v] + PoolRefs(v)

\* what a Consume(mm) step does to the counters
ConsumeReferences(mm) ==
    LET c == msData[mm].seqID
        t == TipOf(latestMilestones, c)
        tNew == TipOf(latestMilestones', c)
    IN \* a replacement: one more on the new tip, one less on the old one
       /\ (tNew # t /\ t # NilVID) =>
             /\ tNew = mm
             /\ references' = [references EXCEPT ![mm] = @ + 1, ![t] = @ - 1]
       \* a first tip: one more on it
       /\ (tNew # t /\ t = NilVID) =>
             /\ tNew = mm
             /\ references' = [references EXCEPT ![mm] = @ + 1]
       \* refused: nothing changes
       /\ tNew = t => UNCHANGED <<references, latestMilestones>>
       \* Reference fails, or the stored tip is submitted again
       /\ (references[mm] = 0 \/ t = mm) => UNCHANGED <<references, latestMilestones>>

\* C11: the tips pool holds exactly one reference on each stored tip and
\* none on a milestone it replaced or refused; a replacement takes one on the
\* new tip and releases one on the old tip; a failed Reference and a
\* re-submitted tip change neither the pool nor any counter.
C11_PoolHoldsOneReference ==
    /\ [](PoolAccounting /\ \A v \in VIDs : PoolRefs(v) <= 1)
    /\ [][consumed'.vid # NilVID => ConsumeReferences(consumed'.vid)]_vars

\* a tip was replaced and the replaced milestone, released by its other
\* holders too, is back at 0 while the new tip carries the pool's reference
C11_Witness ==
    /\ consumed.stored
    /\ consumed.prev # NilVID
    /\ references[consumed.prev] = 0
    /\ holders[consumed.vid] = 1
    /\ references[consumed.vid] = 2

\* ------------------------------------------------------------------------
\* Properties of the sequencer
\* ------------------------------------------------------------------------

\* the steps that got a target time from getNextTargetTime
TargetKinds == {"panic", "stopMaxTargetTs", "noProposal", "submitFailed", "submitted", "registered"}

\* the steps that called the factory for the target time
ProposedKinds == {"noProposal", "submitFailed", "submitted", "registered"}

\* C12: every target time returned by getNextTargetTime is at least the
\* timestamp of the previous own milestone plus pace ticks, and so is the
\* timestamp of the next own milestone, wherever the clock stands.
C12_TargetKeepsPace ==
    /\ [](seqStep.kind \in TargetKinds =>
             TimeTicks(seqStep.target) - TimeTicks(seqStep.prev) >= config.Pace)
    /\ [][ownLatestMilestone' # ownLatestMilestone =>
             TimeTicks(ownLatestMilestone') - TimeTicks(ownLatestMilestone) >= config.Pace]_vars

\* a milestone registered on a slot boundary the target was rounded up to,
\* the previous milestone being in the slot before
C12_Witness ==
    /\ seqStep.kind = "registered"
    /\ seqStep.target[2] = 0
    /\ seqStep.prev[1] < seqStep.target[1]
    /\ TimeTicks(seqStep.target) > TimeTicks(seqStep.prev) + config.Pace
    /\ TimeTicks(seqStep.target) > TimeTicks(seqStep.nowis) + 1

\* C13: the registered milestones have strictly increasing timestamps and
\* the target times of the loop never decrease, also over failed steps.
C13_TimestampsIncrease ==
    /\ [](seqStep.kind # "panic")
    /\ [][/\ ownLatestMilestone' # ownLatestMilestone =>
               TimeTicks(ownLatestMilestone') > TimeTicks(ownLatestMilestone)
          /\ TimeTicks(prevTimeTarget') >= TimeTicks(prevTimeTarget)
          /\ (seqStep' # seqStep /\ seqStep'.kind \in TargetKinds) =>
               /\ TimeTicks(seqStep'.target) >= TimeTicks(prevTimeTarget)
               /\ prevTimeTarget' = seqStep'.target]_vars

\* the first slot boundary not before time n, in ticks
BoundaryTicks(n) ==
    IF n % TicksPerSlot = 0 THEN n ELSE ((n \div TicksPerSlot) + 1) * TicksPerSlot

Max2(a, b) == IF a >= b THEN a ELSE b

\* max(prev_ms + pace, now + 1), in ticks
PlainTarget(st) ==
    Max2(TimeTicks(st.prev) + config.Pace, TimeTicks(st.nowis) + 1)

\* the next slot boundary after now, in ticks
NextBoundary(st) == ((TimeTicks(st.nowis) \div TicksPerSlot) + 1) * TicksPerSlot

\* C14 as stated: the target is max(prev_ms + pace, now + 1), replaced by the
\* next slot boundary iff it is before the boundary and at most pace/1.5
\* ticks away from it.
C14_TargetIsMaxOrBoundary ==
    seqStep.kind \in TargetKinds =>
        TimeTicks(seqStep.target) =
            IF /\ PlainTarget(seqStep) < NextBoundary(seqStep)
               /\ 3 * (NextBoundary(seqStep) - PlainTarget(seqStep)) <= 2 * config.Pace
              THEN NextBoundary(seqStep)
              ELSE PlainTarget(seqStep)

\* C14 as computed: with m = max(prev_ms + pace, now + 1) and b the first
\* slot boundary not before now, the target is m if m >= b; otherwise, with
\* m2 = max(m, now + (2 * pace) div 3), it is m2 if m2 >= b, b if b - m2 is
\* at most pace, and m2 in all other cases.
C14_TargetAsComputed ==
    seqStep.kind \in TargetKinds =>
        LET b == BoundaryTicks(TimeTicks(seqStep.nowis))
            mm == PlainTarget(seqStep)
            m2 == Max2(mm, TimeTicks(seqStep.nowis) + ((2 * config.Pace) \div 3))
        IN TimeTicks(seqStep.target) =
              IF mm >= b THEN mm
              ELSE IF m2 >= b THEN m2
              ELSE IF b - m2 <= config.Pace THEN b
              ELSE m2

\* a target that is neither max(prev_ms + pace, now + 1) nor a slot boundary
C14_Witness ==
    /\ seqStep.kind \in ProposedKinds
    /\ TimeTicks(seqStep.target) # PlainTarget(seqStep)
    /\ seqStep.target[2] # 0

\* C15: a step whose submission fails leaves milestoneCount, branchCount and
\* the own latest milestone unchanged and the loop goes on; a successful
\* step registers the milestone as own latest, adds one to milestoneCount
\* and one to branchCount iff the milestone is a branch.
C15_StepFrame ==
    [][/\ (seqStep' # seqStep /\ seqStep'.kind = "submitFailed") =>
             /\ UNCHANGED <<milestoneCount, branchCount, ownLatestMilestone>>
             /\ seqPc' = "loop"
       /\ (seqStep' # seqStep /\ seqStep'.kind = "registered") =>
             /\ ownLatestMilestone' = seqStep'.target
             /\ milestoneCount' = milestoneCount + 1
             /\ branchCount' = branchCount + (IF seqStep'.target[2] = 0 THEN 1 ELSE 0)
             /\ seqPc' = "loop"
       /\ (seqStep' = seqStep \/ seqStep'.kind # "registered") =>
             UNCHANGED <<milestoneCount, branchCount, ownLatestMilestone>>]_vars

\* the submission timed out although the milestone became the tip, after a
\* milestone had been registered
C15_Witness ==
    /\ seqStep.kind = "submitFailed"
    /\ tipOwn = seqStep.target
    /\ milestoneCount = 1
    /\ ownLatestMilestone # seqStep.target
    /\ seqPc = "loop"

\* C16: with max_branches = k > 0 branchCount never exceeds k and the loop
\* stops at the first step that finds branchCount >= k; with max_branches = 0
\* the loop never stops for this reason.
C16_MaxBranches ==
    /\ [](/\ config.MaxBranches > 0 => branchCount <= config.MaxBranches
          /\ seqStep.kind = "stopMaxBranches" =>
                (config.MaxBranches > 0 /\ branchCount = config.MaxBranches /\ seqPc = "stopped"))
    /\ [][(seqStep' # seqStep /\ seqPc = "loop" /\ seqStep'.kind # "stopCtx"
             /\ config.MaxBranches > 0 /\ branchCount >= config.MaxBranches) =>
                (seqStep'.kind = "stopMaxBranches" /\ seqPc' = "stopped")]_vars

\* the loop stopped after two branch milestones
C16_Witness ==
    /\ seqStep.kind = "stopMaxBranches"
    /\ config.MaxBranches = 2
    /\ branchCount = 2

\* C17: with max_target_ts set no milestone is proposed or submitted for a
\* target after it, the first step with such a target stops the loop without
\* calling the factory; with max_target_ts unset the loop never stops for
\* this reason.
C17_MaxTargetTs ==
    /\ [](/\ (seqStep.kind \in ProposedKinds /\ config.MaxTargetTs # NilLedgerTime) =>
                TimeTicks(seqStep.target) <= TimeTicks(config.MaxTargetTs)
          /\ seqStep.kind = "stopMaxTargetTs" =>
                /\ config.MaxTargetTs # NilLedgerTime
                /\ TimeTicks(seqStep.target) > TimeTicks(config.MaxTargetTs)
                /\ seqPc = "stopped")
    /\ [][(seqStep' # seqStep /\ seqStep'.kind \in TargetKinds /\ seqPc = "loop"
             /\ config.MaxTargetTs # NilLedgerTime
             /\ TimeTicks(seqStep'.target) > TimeTicks(config.MaxTargetTs)) =>
                (seqStep'.kind = "stopMaxTargetTs" /\ seqPc' = "stopped"
                   /\ UNCHANGED <<seqMs, ownLatestMilestone, milestoneCount>>)]_vars

\* the loop stopped on the target time after a milestone had been registered
C17_Witness ==
    /\ seqStep.kind = "stopMaxTargetTs"
    /\ milestoneCount >= 1
    /\ seqPc = "stopped"

\* ------------------------------------------------------------------------
\* Properties of the primary input consumer
\* ------------------------------------------------------------------------

\* the submissions of tx the primary consumer has consumed
Consumed(tx) == submitted[tx] - Occurrences(primaryQueue, tx)

\* C18: at most one vertex is created per transaction id: of the submissions
\* of a transaction consumed so far exactly one, the first, is passed
\* downstream and every other one is rejected with one duplicate event; when
\* each of N transactions was submitted K times, N were passed and
\* N * (K - 1) rejected.
C18_OneVertexPerTxId ==
    \A tx \in TxSet :
        /\ outCount[tx] <= 1
        /\ newVertexEvents[tx] <= 1
        /\ outCount[tx] = (IF Consumed(tx) >= 1 THEN 1 ELSE 0)
        /\ duplicateEvents[tx] = (IF Consumed(tx) >= 1 THEN Consumed(tx) - 1 ELSE 0)
        /\ Occurrences(preValidateQueue, tx) + newVertexEvents[tx] = outCount[tx]
        /\ (tx \in vertices) <=> (newVertexEvents[tx] = 1)

\* every transaction was submitted MaxRuns times and all of it is processed:
\* one vertex each, MaxRuns - 1 duplicate events each
C18_Witness ==
    /\ primaryQueue = <<>>
    /\ preValidateQueue = <<>>
    /\ \A tx \in TxSet :
          /\ submitted[tx] = MaxRuns
          /\ newVertexEvents[tx] = 1
          /\ duplicateEvents[tx] = MaxRuns - 1

\* ------------------------------------------------------------------------
\* Properties of the sync manager
\* ------------------------------------------------------------------------

\* the state DB is more than the tolerance behind the current slot
Behind == SlotNow - dbLatestSlot > syncConfig.syncToleranceThresholdSlots

\* the step is a call of checkSync
CheckSyncStep == syncStep'.kind # "none"

\* a portion is requested, not yet in the DB and its deadline not yet passed
PortionPending ==
    dbLatestSlot < syncPortionRequestedAtLeastUntilSlot /\ wall < syncPortionDeadline

\* C20: checkSync calls PullSyncPortion only when the latest slot in the
\* DB is more than the tolerance behind the current slot; a call of checkSync
\* when it is behind pulls a portion from the latest slot unless a requested
\* portion is still pending, so that it keeps pulling while it stays behind;
\* a call when latest_slot_in_db >= slot_now - tolerance pulls nothing and
\* sets the requested-until slot to 0 and the deadline to the zero time.
C20_PullsOnlyWhileBehind ==
    /\ [][CheckSyncStep =>
            /\ syncStep'.kind = "pull" => Behind
            /\ Behind /\ ~PortionPending =>
                 /\ syncStep'.kind = "pull"
                 /\ syncStep'.startingFrom = dbLatestSlot
                 /\ syncStep'.maxSlots = syncConfig.syncPortionSlots
                 /\ syncPortionDeadline' = wall + PortionExpectedIn
                 /\ syncPortionRequestedAtLeastUntilSlot' > dbLatestSlot
                 /\ syncPortionRequestedAtLeastUntilSlot' <= SlotNow
            /\ Behind /\ PortionPending =>
                 /\ syncStep'.kind = "waiting"
                 /\ UNCHANGED <<syncPortionRequestedAtLeastUntilSlot, syncPortionDeadline>>
            /\ ~Behind =>
                 /\ syncStep'.kind = "synced"
                 /\ syncPortionRequestedAtLeastUntilSlot' = 0
                 /\ syncPortionDeadline' = ZeroTime]_vars
    /\ (Behind /\ syncStep.kind # "pull" /\ wall + PortionExpectedIn <= MaxWall)
           ~> (~Behind \/ syncStep.kind = "pull")

\* the DB has caught up after a pull: checkSync has cleared the request
C20_Witness ==
    /\ portionPulled
    /\ syncStep.kind = "synced"
    /\ dbLatestSlot > 0
    /\ syncPortionRequestedAtLeastUntilSlot = 0
    /\ syncPortionDeadline = ZeroTime

\* C31: while the node is behind and a portion is requested until slot R,
\* checkSync pulls nothing as long as the latest slot in the DB is below R
\* and the deadline of the portion is ahead; it pulls again only once the DB
\* has reached R or the deadline is over, and the slot requested until is
\* never above the current slot
C31_OnePullPerPortion ==
    /\ [][CheckSyncStep =>
            /\ (Behind /\ PortionPending) =>
                 /\ syncStep'.kind # "pull"
                 /\ UNCHANGED <<syncPortionRequestedAtLeastUntilSlot, syncPortionDeadline,
                                portionPulled>>
            /\ (syncStep'.kind = "pull" /\ syncPortionRequestedAtLeastUntilSlot > 0) =>
                 \/ dbLatestSlot >= syncPortionRequestedAtLeastUntilSlot
                 \/ wall >= syncPortionDeadline
            /\ (Behind /\ syncPortionRequestedAtLeastUntilSlot > 0
                  /\ (dbLatestSlot >= syncPortionRequestedAtLeastUntilSlot
                        \/ wall >= syncPortionDeadline)) =>
                 syncStep'.kind = "pull"]_vars
    /\ [](syncPortionRequestedAtLeastUntilSlot <= SlotNow)

\* checkSync has held back: the portion requested is not in the DB and its
\* deadline is ahead
C31_Witness ==
    /\ portionPulled
    /\ syncStep.kind = "waiting"
    /\ dbLatestSlot < syncPortionRequestedAtLeastUntilSlot
    /\ wall < syncPortionDeadline

\* the node is synced: the current slot is within the tolerance of the
\* latest slot in the DB
Synced == SlotNow - dbLatestSlot <= syncConfig.syncToleranceThresholdSlots

\* IgnoreFutureTxID was called
Asked == ignoreFuture # NoIgnore

\* the call returned true exactly for a slot more than the tolerance ahead of
\* the latest slot cached by checkSync
IgnoredExactlyFarAhead ==
    Asked => (ignoreFuture.ret <=>
                 ignoreFuture.txSlot - latestSlotInDB > syncConfig.syncToleranceThresholdSlots)

RECURSIVE PastConeSubmitted(_)
PastConeSubmitted(t) ==
    t = Genesis \/ (attacher[t] # "none" /\ PastConeSubmitted(Dependency(t)))

TipIdx == 1..Len(inclusion)

IncludedTips == { i \in TipIdx : inclusion[i].Included }

\* the tips whose root is dominating at the threshold
DominatingTips ==
    { i \in TipIdx :
        IsCoverageAboveThreshold(inclusion[i].RootRecord,
                                 thresholdNumerator, thresholdDenominator) }

\* C21: CalcTxInclusionScore returns weak = floor(100 * #included / #tips)
\* and strong = floor(100 * #(included and dominating) / #dominating), strong
\* 0 with no dominating tip, both 0 for an empty vector, both within 0..100.
C21_InclusionScore ==
    score # NoScore =>
        /\ score.WeakScore =
             IF TipIdx = {} THEN 0
             ELSE (100 * Cardinality(IncludedTips)) \div Cardinality(TipIdx)
        /\ score.StrongScore =
             IF DominatingTips = {} THEN 0
             ELSE (100 * Cardinality(IncludedTips \cap DominatingTips))
                      \div Cardinality(DominatingTips)
        /\ score.WeakScore \in 0..100
        /\ score.StrongScore \in 0..100

\* tips [included, included, not, not], two of them dominating at 1/2 and
\* one of these included: weak 50 and strong 50
C21_Witness ==
    /\ Len(inclusion) = 4
    /\ IncludedTips = {1, 2}
    /\ DominatingTips = {2, 3}
    /\ score.WeakScore = 50
    /\ score.StrongScore = 50

\* C22: IsCoverageAboveThreshold(n, d) is true iff
\* ledger_coverage > 2 * supply * n / d evaluated exactly.
C22_ThresholdExact ==
    aboveThreshold # "none" =>
        (aboveThreshold = "true" <=>
            rootRecord.LedgerCoverage * thresholdDenominator
                > 2 * rootRecord.Supply * thresholdNumerator)

\* ------------------------------------------------------------------------
\* Properties of the encoding of a root record
\* ------------------------------------------------------------------------

\* the bytes are those of Bytes of the valid record recIn, and are decoded
DecodedOwnBytes == recIn # ZeroRecord /\ recOut # NoDecode

\* C23: RootRecordFromBytes(r.Bytes()) returns a record equal to r in all
\* six fields, and no error, for every valid RootRecord r.
C23_RoundTrip ==
    DecodedOwnBytes =>
        /\ recOut.err = "nil"
        /\ recOut.rec.SequencerID = recIn.SequencerID
        /\ recOut.rec.Root = recIn.Root
        /\ recOut.rec.LedgerCoverage = recIn.LedgerCoverage
        /\ recOut.rec.SlotInflation = recIn.SlotInflation
        /\ recOut.rec.Supply = recIn.Supply
        /\ recOut.rec.NumTransactions = recIn.NumTransactions

\* a record with bytes above 0 in the high and the low end of its fields
\* went through Bytes and RootRecordFromBytes
C23_Witness ==
    /\ DecodedOwnBytes
    /\ recIn.LedgerCoverage = 129
    /\ recIn.SlotInflation = 128
    /\ recIn.NumTransactions = 9
    /\ recOut.rec = recIn

\* the lengths of the elements of the bytes, <<>> when they are no array
ElementLengths ==
    LET elems == ParseElements(recData)
    IN IF elems = Malformed THEN <<>> ELSE [i \in 1..Len(elems) |-> Len(elems[i])]

\* exactly six elements, the last four of 8, 8, 8 and 4 bytes
RightlySized ==
    /\ Len(ElementLengths) = numberOfElementsInRootRecord
    /\ SubSeq(ElementLengths, 3, 6) = <<Uint64Len, Uint64Len, Uint64Len, Uint32Len>>

MaxWrittenSlot ==
    IF DOMAIN rootRecs = {} THEN 0
    ELSE CHOOSE s \in 0..MaxStoreSlot :
            /\ \E txid \in DOMAIN rootRecs : SlotOf(txid) = s
            /\ \A txid \in DOMAIN rootRecs : SlotOf(txid) <= s

Called(o, v) == last'.op = o /\ last'.vid = v /\ UNCHANGED <<shape, baselineBranch>>

\* C27: BaselineBranch of a wrapped transaction whose id is flagged as a
\* branch returns its own id, as a vertex and as a virtual transaction;
\* of another vertex it returns the recorded baseline, nil while none is chosen
C27_BranchIsOwnBaseline ==
    [][\A v \in VIDs :
          Called("BaselineBranch", v) =>
              /\ (isBranch[v] /\ shape[v] \in {"vertex", "virtualTx"}) => last'.res = v
              /\ (~isBranch[v] /\ shape[v] = "vertex") => last'.res = baselineBranch[v]]_vars

\* BaselineBranch has returned its own id for a branch that is a virtual
\* transaction
C27_Witness ==
    /\ last.op = "BaselineBranch"
    /\ isBranch[last.vid]
    /\ shape[last.vid] = "virtualTx"
    /\ last.res = last.vid

\* the accesses to a wrapped transaction
DeletedAccessOps ==
    {"OutputAt", "HasOutputAt", "Unwrap", "ConvertToVirtualTx",
     "ConvertVirtualTxToVertexNoLock", "MarkDeleted"}

\* C28: every access to a deleted wrapped transaction panics: reading an
\* output, unwrapping, converting the shape, marking it deleted again
C28_DeletedAccessPanics ==
    [][\A v \in VIDs :
          (shape[v] = "deleted" /\ last'.vid = v /\ last'.op \in DeletedAccessOps)
              => last'.res \in {"panic", "txid-s do not match", "virtual tx target expected"}]_vars


\* ------------------------------------------------------------------------
\* Properties of the peers and the gossip stream handler
\* ------------------------------------------------------------------------

\* the stream handler h ends with an error of framing or parsing in this step
GossipFails(h) == gossip[h].pc = "found" /\ gossip'[h].pc = "failed"

\* an error on a stream of a dynamic peer removes the peer and blacklists it
\* until a minute from now
DynamicPeerDropped ==
    \A h \in Streams :
        LET id == gossip[h].id
        IN (GossipFails(h) /\ id \in DOMAIN peers /\ ~peers[id].isStatic) =>
               /\ id \notin DOMAIN peers'
               /\ id \in DOMAIN blacklist'
               /\ blacklist'[id] = peerNow + Minute

\* an entry leaves the blacklist only when its deadline has passed
BlacklistedUntilDeadline ==
    \A id \in PeerIDs :
        (id \in DOMAIN blacklist /\ id \notin DOMAIN blacklist') => blacklist[id] < peerNow

\* a stream that came from a blacklisted peer is reset and nothing of it is
\* handed to onReceiveTx
BlacklistedIsReset ==
    \A h \in Streams : gossip[h].blacklisted => gossip[h].pc = "reset"

\* a static peer stays in the peers and out of the blacklist
StaticPeerKept ==
    \A id \in StaticPeers :
        /\ id \in DOMAIN peers
        /\ peers[id].isStatic
        /\ id \notin DOMAIN blacklist

WaitReturns == wait.pc # "returned" /\ wait'.pc = "returned"

\* the wait returns only with no component left, or after the deadline and at
\* the first wake-up after it; with no component left at a check it returns
WaitReturnStep ==
    /\ (WaitReturns /\ wait'.result = "all stopped") => components = {}
    /\ (WaitReturns /\ wait'.result = "exceeded timeout") =>
           /\ globalNow > wait.deadline
           /\ globalNow <= wait.deadline + SleepTime
    /\ (wait.pc = "check" /\ components = {} /\ wait' # wait) => wait'.result = "all stopped"

\* C30: MustWaitAllWorkProcessesStop(timeout) always returns: when no work
\* process started is left, and otherwise when the timeout has passed, the
\* components still registered notwithstanding; it does not wait beyond the
\* deadline for a component that never stops
C30_WaitAlwaysReturns ==
    /\ (wait.pc = "check") ~> (wait.pc = "returned")
    /\ [][WaitReturnStep]_vars

\* the wait has returned on the timeout with a component still registered
C30_Witness ==
    /\ wait.pc = "returned"
    /\ wait.result = "exceeded timeout"
    /\ components # {}


\* ------------------------------------------------------------------------
\* Properties of the consumers of the outputs of a wrapped transaction
\* ------------------------------------------------------------------------

\* the step is a call of AttachConsumer
AttachStep == attached'.before = consumedOutputs /\ attached'.idx \in ConsumedIndices

\* C33: AttachConsumer(idx, c, check) records c among the consumers of the
\* output idx also when it reports a conflict, returns false exactly when
\* check reports a conflict on the set that holds c already, no consumer is
\* ever removed, and the consumers of the other outputs stay as they are
C33_AttachConsumerRecords ==
    [][/\ AttachStep =>
            LET idx == attached'.idx
                c == attached'.consumer
            IN /\ c \in ConsumersOf(consumedOutputs', idx)
               /\ ConsumersOf(consumedOutputs', idx) = ConsumersOf(consumedOutputs, idx) \cup {c}
               /\ attached'.ret = ~checkConflicts(attached'.check, ConsumersOf(consumedOutputs, idx) \cup {c})
               /\ \A i \in ConsumedIndices \ {idx} :
                     /\ ConsumersOf(consumedOutputs', i) = ConsumersOf(consumedOutputs, i)
                     /\ (i \in DOMAIN consumedOutputs') = (i \in DOMAIN consumedOutputs)
       /\ \A i \in ConsumedIndices : ConsumersOf(consumedOutputs, i) \subseteq ConsumersOf(consumedOutputs', i)
       /\ NumConsumers(consumedOutputs)[1] <= NumConsumers(consumedOutputs')[1]]_vars

\* a conflict was reported and the consumer is recorded all the same, next
\* to another consumer of the output, with the other output consumed too
C33_Witness ==
    /\ attached.idx \in DOMAIN consumedOutputs
    /\ ~attached.ret
    /\ attached.check = "double spend"
    /\ attached.consumer \in consumedOutputs[attached.idx]
    /\ Cardinality(consumedOutputs[attached.idx]) > 1
    /\ NumConsumers(consumedOutputs) = <<2, 1>>


\* ------------------------------------------------------------------------
\* Properties of the depth-first traverse of a past cone
\* ------------------------------------------------------------------------

\* the solid inputs and endorsements of a vertex
ResolvedDependencies(v) ==
    (Range(pastCone[v].Inputs) \cup Range(pastCone[v].Endorsements)) \ {NilVID}

\* the vertices entered and the vertices called back by the traverse
Entered == {e[2] : e \in {x \in Range(traversed.events) : x[1] = "enter"}}

CalledBack == {e[2] : e \in {x \in Range(traversed.events) : x[1] = "call"}}

\* C34: the traverse ends; every vertex is entered and called back at most
\* once, none of the visited set handed in is entered, nil dependencies are
\* skipped, every vertex entered is the tip or a solid dependency of a vertex
\* entered before, the callback of a vertex comes after all its solid
\* dependencies were entered or were visited already, nothing follows the
\* first callback that returns false, and the visited set is in the end the
\* one handed in plus the vertices entered
C34_TraverseDepthFirst ==
    traversed.done =>
        LET ev == traversed.events
        IN /\ \A j, k \in 1..Len(ev) : j < k => ev[j] # ev[k]
           /\ Entered \cap traverseOpt.visited = {}
           /\ NilVID \notin Entered
           /\ CalledBack \subseteq Entered
           /\ \A k \in 1..Len(ev) :
                 ev[k][1] = "enter" =>
                     \/ ev[k][2] = ConeTip
                     \/ \E j \in 1..(k - 1) :
                           /\ ev[j][1] = "enter"
                           /\ pastCone[ev[j][2]].shape = "vertex"
                           /\ ev[k][2] \in ResolvedDependencies(ev[j][2])
           /\ \A k \in 1..Len(ev) :
                 (ev[k][1] = "call" /\ pastCone[ev[k][2]].shape = "vertex") =>
                     \A d \in ResolvedDependencies(ev[k][2]) :
                         \/ d \in traverseOpt.visited
                         \/ \E j \in 1..(k - 1) : ev[j] = <<"enter", d>>
           /\ \A k \in 1..Len(ev) :
                 (ev[k][1] = "call" /\ ev[k][2] \in traverseOpt.stop) => k = Len(ev)
           /\ traversed.ret = (CalledBack \cap traverseOpt.stop = {})
           /\ traversed.ret => CalledBack = Entered
           /\ traversed.visited = traverseOpt.visited \cup Entered

\* a traverse through a cycle and past a dependency that is not solid, with
\* a vertex visited already, stopped by the callback of the second vertex
C34_Witness ==
    /\ traversed.done
    /\ ~traversed.ret
    /\ traverseOpt.visited = {"c"}
    /\ pastCone["a"].Inputs = <<NilVID, "b">>
    /\ pastCone["b"].Inputs = <<"a">>
    /\ pastCone["b"].Endorsements = <<"c">>
    /\ traversed.events = <<<<"enter", "a">>, <<"enter", "b">>, <<"call", "b">>>>

\* ------------------------------------------------------------------------
\* Properties of the shapes of a wrapped transaction
\* ------------------------------------------------------------------------

\* the call of o on the wrapped transaction v that ends in this step went
\* through
ShapeCall(o, v) == last' = Returned(o, v, "ok")

\* the shape of the existing wrapped transaction v changes in this step
ShapeChanges(v) == shape[v] # "none" /\ shape'[v] # shape[v]

\* a change of shape is one of the three conversions, made by its method
ShapeTransition(v) ==
    \/ /\ shape[v] = "virtualTx" /\ shape'[v] = "vertex"
       /\ ShapeCall("ConvertVirtualTxToVertexNoLock", v)
    \/ /\ shape[v] = "vertex" /\ shape'[v] = "virtualTx"
       /\ ShapeCall("ConvertToVirtualTx", v)
    \/ /\ shape[v] \in {"virtualTx", "vertex"} /\ shape'[v] = "deleted"
       /\ ShapeCall("MarkDeleted", v)

\* ConvertVirtualTxToVertexNoLock on anything but a virtual transaction of
\* the same id, and ConvertToVirtualTx on a virtual transaction, change no
\* shape
ShapeKept(v) ==
    /\ (last'.vid = v /\ last'.op = "ConvertVirtualTxToVertexNoLock" /\ last'.res # "ok")
           => shape' = shape
    /\ (last'.vid = v /\ last'.op = "ConvertToVirtualTx" /\ shape[v] = "virtualTx")
           => (shape' = shape /\ last'.res = "ok")

\* C35: the shape of a wrapped transaction changes only from virtual to
\* vertex (ConvertVirtualTxToVertexNoLock of a virtual transaction with the
\* same id), from vertex to virtual (ConvertToVirtualTx, which leaves a
\* virtual one as it is) and from either to deleted (MarkDeleted); a deleted
\* one stays deleted; a change of shape leaves the status, the flags, the
\* reference counter and the consumers as they were
C35_ShapeTransitions ==
    [][\A v \in VIDs :
          /\ ShapeChanges(v) => ShapeTransition(v)
          /\ ShapeKept(v)
          /\ shape[v] = "deleted" => shape'[v] = "deleted"
          /\ ShapeChanges(v) =>
                 UNCHANGED <<flags, err, references, consumedOutputs>>]_vars

\* ConvertToVirtualTx went through on a wrapped transaction with a bad
\* status, a second reference and a consumer, next to a deleted one
C35_Witness ==
    /\ last = Returned("ConvertToVirtualTx", "v1", "ok")
    /\ shape["v1"] = "virtualTx"
    /\ err["v1"] = "conflict"
    /\ references["v1"] = 2
    /\ 0 \in DOMAIN consumedOutputs
    /\ shape["v2"] = "deleted"

\* ------------------------------------------------------------------------
\* Properties of TransactionInWaitAppend
\* ------------------------------------------------------------------------

\* no callback has sent on the closed channel
NoSendOnClosed == \A c \in Callbacks : callbackPc[c] # "panic"

\* every callback that was called has returned
CallbacksReturned == \A c \in Callbacks : callbackPc[c] \in {"idle", "done"}

\* C36: TransactionInWaitAppend returns in every interleaving of the finish
\* callbacks with the timeout: once the transaction is pushed the call
\* returns, no callback stays blocked in its send, and no send hits the
\* closed channel
C36_WaitAppendReturns ==
    /\ pushed ~> (appendPc = "returned")
    /\ [](appendPc = "returned" => <>CallbacksReturned)
    /\ []NoSendOnClosed

\* the timeout was taken while a callback holds closeMutex in its send: the
\* deferred function waits for the mutex, the callback for a receiver
WaitAppendStuck ==
    /\ appendPc = "deferred"
    /\ appendResult = "timeout"
    /\ \E c \in Callbacks : callbackPc[c] = "sending" /\ closeMutex = c

\* ------------------------------------------------------------------------
\* Properties of the tips of the pool over time
\* ------------------------------------------------------------------------

\* the chain c keeps a tip, and the timestamp of its tip does not go back
TipNeverOlder(c) ==
    /\ c \in DOMAIN latestMilestones'
    /\ ~Before(VidTimestamp(latestMilestones'[c].vid), VidTimestamp(latestMilestones[c].vid))

\* the entry of chain c as Consume writes it in this step: the consumed
\* milestone with the id of its baseline branch
TipStoredNow(c) ==
    /\ consumed'.stored
    /\ SequencerIDIfAvailable(consumed'.vid) = c
    /\ latestMilestones'[c] = [vid |-> consumed'.vid, BranchID |-> BaselineBranch(consumed'.vid)]

\* C37: for every chain id, over any sequence of Consume calls the
\* timestamp of the stored tip never decreases, a chain id that has a tip
\* keeps one, and an entry is written only by Consume storing a milestone
\* together with the id of its baseline branch
C37_TipsNeverGoBack ==
    [][\A c \in Chains :
          /\ c \in DOMAIN latestMilestones => TipNeverOlder(c)
          /\ (c \in DOMAIN latestMilestones' /\ TipOf(latestMilestones', c) # TipOf(latestMilestones, c))
                 => TipStoredNow(c)
          /\ c \in DOMAIN latestMilestones' =>
                 latestMilestones'[c].BranchID = BaselineBranch(latestMilestones'[c].vid)]_vars

\* an older milestone was consumed after the tip of its chain, a milestone
\* that is not a branch, and the tip stayed
C37_Witness ==
    /\ consumed.vid # NilVID
    /\ ~consumed.stored
    /\ consumed.prev \notin {NilVID, consumed.vid}
    /\ Before(VidTimestamp(consumed.vid), VidTimestamp(consumed.prev))
    /\ ~IsBranchTransaction(msData[consumed.prev].ID)
    /\ latestMilestones[SequencerIDIfAvailable(consumed.vid)] =
          [vid |-> consumed.prev, BranchID |-> BaselineBranch(consumed.prev)]

\* ------------------------------------------------------------------------
\* Properties of the input backlog
\* ------------------------------------------------------------------------

\* the references on v held by the DAG, by the listeners between Reference
\* and the end of the call, by the outputs stored in the backlog
HeldByDAG(v) == IF txKind[v] = "unreferenced" THEN 0 ELSE 1

HeldByListeners(v) ==
    Cardinality({l \in Listeners : listener[l].pc # "idle" /\ listener[l].wOut.VID = v})

HeldByBacklog(v) == Cardinality(OutputsOf(DOMAIN outputs, v))

\* C38: in every reachable state of the backlog each stored output accounts
\* for exactly one reference on its transaction: beside the reference of the
\* DAG and those of the listener calls under way, the counter of a
\* transaction is the number of its outputs in the backlog; so a rejected
\* candidate leaves the counter as it was, a stored output takes one
\* reference and a purged one releases one, in any interleaving of the
\* listener with the purge loop
C38_OneReferencePerStoredOutput ==
    \A v \in VIDs :
        references[v] = HeldByDAG(v) + HeldByListeners(v) + HeldByBacklog(v)

\* the purge loop has removed one output while another output of the same
\* transaction stays in the backlog and a listener that delivers the
\* removed output again is past its check
C38_Witness ==
    /\ backlogStep.kind = "purged"
    /\ backlogStep.n = 1
    /\ HeldByBacklog("v1") = 1
    /\ listener["l1"].pc = "checked"
    /\ listener["l1"].wOut.VID = "v1"
    /\ listener["l1"].wOut \notin DOMAIN outputs
    /\ references["v1"] = 3

\* ------------------------------------------------------------------------
\* Properties of the readers and writers of the tangle
\* ------------------------------------------------------------------------

\* the reader r is inside heaviestBranchForLatestTimeSlot
InHeaviestBranch(r) ==
    readerPc[r] \in {"heaviestBranch", "heaviestBranch.LatestTimeSlot", "forEachBranchSorted"}

\* C39: heaviestBranchForLatestTimeSlot, which calls LatestTimeSlot with the
\* read lock held, completes in every interleaving with writers that ask
\* for the write lock, and every writer that asked gets the lock
C39_NestedReadLockCompletes ==
    /\ \A r \in TangleReaders : InHeaviestBranch(r) ~> (readerPc[r] = "done")
    /\ \A w \in TangleWriters : (writerPc[w] = "Lock") ~> (writerPc[w] = "done")

\* a reader holds the read lock of heaviestBranchForLatestTimeSlot and has
\* to take it again in LatestTimeSlot behind a writer that waits in Lock
TangleStuck ==
    \E r \in TangleReaders, w \in TangleWriters :
        /\ readerPc[r] = "heaviestBranch"
        /\ writerPc[w] = "Lock"
        /\ tangleMutex.writer = w
        /\ tangleMutex.readers > 0

\* ------------------------------------------------------------------------
\* Properties of the start and the stop of the poker
\* ------------------------------------------------------------------------

\* C40: in every interleaving of the two goroutines of Start with the
\* cancellation of the context, stopWG.Add(1) comes before the matching
\* stopWG.Done(), so the counter is never negative, and WaitStop returns
\* only after the poker was registered as running and periodicLoop has seen
\* the shutdown and stopped the queue
C40_StopAfterStart ==
    /\ stopWG >= 0
    /\ loopPc # "panic"
    /\ \A s \in Stoppers :
          waitStop[s].pc = "returned" => (waitStop[s].registered /\ waitStop[s].stopped)

\* the context was cancelled and periodicLoop has called Done before the
\* goroutine that calls Run has added to the wait group
StartDoneBeforeAdd ==
    /\ runPc = "go"
    /\ loopPc = "panic"
    /\ stopWG < 0

====
